---- MODULE Spec2Model ----
(***************************************************************************)
(* The polling monitoring engine of VtQube: MonitoringThread               *)
(* (src/src/monitoring.py) together with the start request of the main     *)
(* window (src/src/main.py, MainWindow.start_monitoring) and the           *)
(* configuration check (src/src/config.py, AlertConfig.is_valid).          *)
(*                                                                         *)
(* A change percentage is kept as the fraction [num, den] (den > 0) of the *)
(* two integers the code divides; the comparisons with the thresholds are  *)
(* made on the doubles the code computes from them.                        *)
(***************************************************************************)
EXTENDS Integers, Sequences, FiniteSets, TLC

(* ------------------------------ bounds ---------------------------------- *)

\* the wall clock (seconds) stops advancing past this value
MaxTime == 300
\* the later clock readings at which a thread is started
MidStart == 100
LateStart == 200
\* the calendar date is a day number 0..MaxDay
MaxDay == 1
\* threads a RequestTokenServer may create in a run
MaxServerThreads == 3
\* orders the dialogs of a run may log
MaxTrades == 2
\* kite.place_order calls of a run
MaxOrders == 3
\* database calls of the monitoring thread that may raise in a run
MaxDbErrors == 1
\* validation warnings one dialog may show in a run
MaxWarnings == 2
\* callback requests the token server answers in a run
MaxRequests == 2

ServerThreads == 1..MaxServerThreads

\* what the fields of the trading dialog may hold when accept_order is called
\* (quantity 0 is what the first validation guards against; the spin box itself
\* is given the range 1..1000000)
Quantities == {0, 1, 2}
Prices == {0, 10}
TriggerPrices == {0, 5}
BudgetCaps == {0, 15}
OrderTypes == {"MARKET", "LIMIT", "SL", "SL-M"}
\* how kite.place_order may end: it raises, or returns the order id (a string,
\* as KiteConnect.place_order does), or returns a mapping with an order_id key
BrokerResponses == {"raises", "order id", "mapping"}
\* the order ids the broker may answer with
OrderIds == {"1", "2"}

\* seconds that may pass between two iterations of the polling loop
TimeSteps == {100}

\* watchlist symbols: A and B resolve to an instrument, U is known to no manager
Symbols == {"A", "B", "U"}
TradableSymbols == {"A", "B"}
Watchlists == {<<"A">>, <<"A", "U", "B">>}
\* the clock readings at which the thread may be started: the one-symbol
\* watchlist is followed for the whole time range or from MidStart on, the
\* three-symbol one for the last part of the range
StartTimes(w) == IF Len(w) = 1 THEN {0, MidStart} ELSE {LateStart}

\* the buy and sell quantities a quote of the symbol may carry; lines 176-177
\* read them with a default of 0, so a quote without them gives 0 and 0
Quotes(s) ==
    IF s = "A" THEN {<<0, 0>>, <<0, 100>>, <<100, 0>>, <<100, 100>>, <<129, 100>>}
    ELSE {<<100, 100>>}

\* values of the settings table (thresholds in percent, duration in seconds)
ThresholdSettings == {-1, 29}
StabilityThresholdSettings == {1}
StabilityDurationSettings == {100}

(* -------------------------- program constants --------------------------- *)

CooldownSeconds == 300
TickSleep == 5
ClosedSleep == 60
PausedSleep == 1
\* MainWindow.stop_monitoring: monitoring_thread.wait(5000)
StopGraceSeconds == 5

Absent == -1
AlertTypes == {"TBQ Spike", "TSQ Spike"}
Keys == Symbols \X AlertTypes

(* ------------------------------- state ---------------------------------- *)

VARIABLES
    \* environment
    now,                    \* datetime.datetime.now(), seconds
    today,                  \* datetime.date.today(), day number
    market_open,            \* 09:00 <= QTime.currentTime() <= 15:30
    trade_on_tbq_tsq_alert, \* settings row "trade_on_tbq_tsq_alert" = 'True'
    kite,                   \* MainWindow.kite is set (a broker client exists)
    settings,               \* settings rows read by load_settings_from_db
    user_selected_symbols,  \* symbols selected in the instrument managers
    specific_monitored_symbol, \* MainWindow.specific_monitored_symbol: "None" or a symbol
    \* MainWindow
    config,                 \* MainWindow.config (AlertConfig)
    monitoring_thread,      \* MainWindow.monitoring_thread: "None" | "created" | "started"
    start_outcome,          \* how the last start_monitoring call ended
    main_window,            \* what a MainWindow() call has given, and whether the
                            \* attributes below are those of a window
    invalid_symbol_box,     \* set_specific_monitored_symbol stands in its "Invalid
                            \* Symbol" message box
    \* MonitoringThread fields
    thread_config,
    monitored_symbols,
    previous_volume_data,
    tbq_baselines,
    tsq_baselines,
    symbol_daily_max_tbq,
    symbol_daily_min_tbq,
    symbol_daily_max_tsq,
    symbol_daily_min_tsq,
    last_reset_date,
    running,
    paused,
    alert_cooldown,
    stability_check_active,
    stability_start_times,
    last_baseline_data,
    db_manager,             \* "None" | "open" | "closed"
    db_errors,              \* number of database calls of the thread that have raised
    \* position of run()
    pc,                     \* "unstarted" | "loop" | "for" | one of Sleeps | "finished"
    iter_symbols,           \* the list object the for loop iterates
    idx,                    \* next position of the for loop
    \* signals emitted during the current tick
    volume_update,          \* symbols a volume_update was emitted for
    error_occurred,         \* number of error_occurred emissions
    alert_triggered,        \* symbols an alert_triggered was emitted for
    status_changed,         \* last status_changed message
    last_result,            \* VolumeData of the last processed symbol
    \* history (not program state)
    h_fetch_ok,             \* symbols whose quote fetch succeeded this tick
    h_fetch_failed,         \* symbols whose quote fetch raised this tick
    h_before,               \* what the last processed symbol's state was before
    h_date,                 \* per symbol: the date of its last result
    h_fired,                \* per symbol and alert type: when it was last triggered
    h_watch,                \* per symbol: the alert-time snapshot being watched
    h_today,                \* per symbol: the extremes of the quantities seen today
    h_start,                \* the inputs of the last start_monitoring call
    h_outcomes,             \* the ways start_monitoring calls have ended so far
    h_stop,                 \* the stop_monitoring call: when made, when returned
    h_auth_failed,          \* a quote fetch has failed for lack of authentication
    \* RequestTokenServer (src/src/utils.py)
    server_running,         \* RequestTokenServer._running
    server,                 \* RequestTokenServer._server: 0 (None) or the thread that made it
    server_thread,          \* RequestTokenServer._server_thread: 0 (None) or a thread
    thread_pc,              \* per thread: position of run()
    shutdown_request,       \* per HTTPServer: shutdown() has asked serve_forever to end
    is_shut_down,           \* per HTTPServer: serve_forever has ended
    socket_open,            \* per HTTPServer: it listens on localhost:5000
    server_error,           \* number of server_error emissions
    token_received,         \* number of token_received emissions
    requests,               \* number of callback requests answered
    stop_pc,                \* position of the caller inside stop()
    stop_target,            \* the HTTPServer stop() has called shutdown() on (0: none)
    h_stopped,              \* stop() has returned and start() was not called since
    \* TradingDialog (src/src/trading_dialog.py)
    dialog,                 \* the TradingDialog: "None" | "open" | "accepted" | "rejected", its
                            \* kite, the status the message box of accept_order reports
                            \* and the order id the call holds meanwhile
    budget_cap,             \* TradingDialog.budget_cap
    trades,                 \* rows of the trades table (status and order_id)
    order_placed,           \* order_placed emissions (status and order_id)
    place_order_calls,      \* number of kite.place_order calls
    warnings,               \* number of validation message boxes shown
    h_order                 \* the last accept_order call: inputs and state before

envVars == <<now, today, market_open, trade_on_tbq_tsq_alert, kite, settings,
             user_selected_symbols, specific_monitored_symbol>>
mwVars == <<main_window, config, monitoring_thread, start_outcome,
           invalid_symbol_box>>
symVars == <<previous_volume_data, tbq_baselines, tsq_baselines, alert_cooldown,
             stability_check_active, stability_start_times, last_baseline_data>>
dailyVars == <<symbol_daily_max_tbq, symbol_daily_min_tbq, symbol_daily_max_tsq,
               symbol_daily_min_tsq>>
ctlVars == <<thread_config, monitored_symbols, running, paused>>
loopVars == <<pc, iter_symbols, idx, db_manager, last_reset_date>>
sigVars == <<volume_update, error_occurred, alert_triggered, status_changed,
             last_result>>
histVars == <<h_fetch_ok, h_fetch_failed, h_before, h_date, h_fired, h_watch,
              h_today, h_start, h_outcomes, h_stop, h_auth_failed>>

srvVars == <<server_running, server, server_thread, thread_pc, shutdown_request,
             is_shut_down, socket_open, server_error, token_received, requests,
             stop_pc, stop_target, h_stopped>>
dlgVars == <<dialog, budget_cap, trades, order_placed, place_order_calls, warnings,
             h_order>>
appVars == <<srvVars, dlgVars>>

vars == <<envVars, mwVars, symVars, dailyVars, ctlVars, loopVars, sigVars, histVars,
          appVars, db_errors>>


(* ------------------------------ helpers --------------------------------- *)

\* a float kept as an exact fraction
Rat(n, d) == [num |-> n, den |-> d]
RatEq(a, b) == a.num * b.den = b.num * a.den
RatIsZero(a) == a.num = 0

NoData == [present |-> FALSE, tbq |-> 0, tsq |-> 0,
           day_high_tbq |-> 0, day_low_tbq |-> 0,
           day_high_tsq |-> 0, day_low_tsq |-> 0]

NoResult == [present |-> FALSE]

NoBefore == [valid |-> FALSE]

NoWatch == [active |-> FALSE, tbq |-> 0, tsq |-> 0, since |-> Absent, broken |-> FALSE]

NoToday == [minb |-> 0, maxb |-> 0, mins |-> 0, maxs |-> 0]

NoStop == [called |-> FALSE, returned |-> FALSE, at |-> Absent, back |-> Absent,
           pc |-> "None", position |-> 0]
NoOrder == [called |-> FALSE, done |-> FALSE]

\* dict.get(key, default) on a dict kept as a function with Absent entries
DictGet(d, k, default) == IF d[k] # Absent THEN d[k] ELSE default

\* the clock readings a loop iteration may see after sleeping `sleep` seconds
AfterSleep(sleep) == {now + e : e \in {x \in TimeSteps : x >= sleep}}

\* the three time.sleep calls of run(): where the thread is while it sleeps
Sleeps == {"paused_sleep", "closed_sleep", "tick_sleep"}
SleepSeconds(p) ==
    IF p = "paused_sleep" THEN PausedSleep
    ELSE IF p = "closed_sleep" THEN ClosedSleep
    ELSE TickSleep

\* run() has begun and has not returned
Started == {"loop", "for"} \cup Sleeps

(* ----------- float arithmetic (IEEE-754 doubles, as Python's) ----------- *)

\* A positive double m * 2^(exp - 52) is kept as its exponent and the three
\* pieces of its 53 binary digits m = hi * 2^36 + mid * 2^18 + lo, with
\* 2^16 <= hi < 2^17, mid < 2^18 and lo < 2^18.

\* the number of binary digits of a natural number below 2^30
BitLength(k) ==
    LET w8 == IF k < 2^8 THEN 8 ELSE IF k < 2^16 THEN 16 ELSE IF k < 2^24 THEN 24 ELSE 32
    IN  IF k < 2^(w8 - 4)
        THEN (IF k < 2^(w8 - 6)
              THEN (IF k < 2^(w8 - 7) THEN (IF k < 2^(w8 - 8) THEN w8 - 8 ELSE w8 - 7)
                    ELSE w8 - 6)
              ELSE (IF k < 2^(w8 - 5) THEN w8 - 5 ELSE w8 - 4))
        ELSE (IF k < 2^(w8 - 2)
              THEN (IF k < 2^(w8 - 3) THEN w8 - 3 ELSE w8 - 2)
              ELSE (IF k < 2^(w8 - 1) THEN w8 - 1 ELSE w8))

\* six more digits of the long division of r by d, for r < d < 2^24
DivStep(r, d) == [q |-> (r * 64) \div d, r |-> (r * 64) % d]

\* the double next above (hi, mid, lo) on the same exponent, or the first one
\* of the next exponent
DoubleUp(hi, mid, lo, exp) ==
    IF lo + 1 < 2^18 THEN [hi |-> hi, mid |-> mid, lo |-> lo + 1, exp |-> exp]
    ELSE IF mid + 1 < 2^18 THEN [hi |-> hi, mid |-> mid + 1, lo |-> 0, exp |-> exp]
    ELSE IF hi + 1 < 2^17 THEN [hi |-> hi + 1, mid |-> 0, lo |-> 0, exp |-> exp]
    ELSE [hi |-> 2^16, mid |-> 0, lo |-> 0, exp |-> exp + 1]

\* round to nearest, ties to even: `up` says that what was cut off is more than
\* half of the last digit kept, `tie` that it is exactly half of it
RoundToDouble(hi, mid, lo, exp, up, tie) ==
    IF up \/ (tie /\ lo % 2 = 1) THEN DoubleUp(hi, mid, lo, exp)
    ELSE [hi |-> hi, mid |-> mid, lo |-> lo, exp |-> exp]

\* eighteen more digits of the long division of r by d, and what is left
DivDigits(r, d) ==
    LET s1 == DivStep(r, d)
        s2 == DivStep(s1.r, d)
        s3 == DivStep(s2.r, d)
    IN  [q |-> s1.q * 4096 + s2.q * 64 + s3.q, r |-> s3.r]

\* the quotient 1.f1 f2 f3 (binary, eighteen digits each) is cut to 53 digits and
\* rounded to nearest, ties to even; rest is what the division left
DivRound(f1, f2, f3, rest, exp) ==
    RoundToDouble(2^16 + f1 \div 4, (f1 % 4) * 2^16 + f2 \div 4,
                  (f2 % 4) * 2^16 + f3 \div 4, exp,
                  (f3 \div 2) % 2 = 1 /\ (f3 % 2 = 1 \/ rest # 0),
                  (f3 \div 2) % 2 = 1 /\ ~(f3 % 2 = 1 \/ rest # 0))

\* the digits after the leading one of n / d, for d <= n < 2 * d
DivQuotient(n, d, exp) ==
    LET t1 == DivDigits(n - d, d)
        t2 == DivDigits(t1.r, d)
        t3 == DivDigits(t2.r, d)
    IN  DivRound(t1.q, t2.q, t3.q, t3.r, exp)

\* n and d have as many binary digits: the quotient is in [1, 2) or in [1/2, 1)
DivScaled(n, d, shift) ==
    IF n >= d THEN DivQuotient(n, d, shift) ELSE DivQuotient(2 * n, d, shift - 1)

\* n or d is doubled until both have as many binary digits
DivAligned(n, d, shift) ==
    DivScaled(IF shift < 0 THEN n * 2^(0 - shift) ELSE n,
              IF shift > 0 THEN d * 2^shift ELSE d, shift)

\* n / d for integers 0 < n < 2^24 and 0 < d < 2^24
DoubleDiv(n, d) == DivAligned(n, d, BitLength(n) - BitLength(d))

\* the product top * 2^36 + middle * 2^18 + low has k digits more than 53: they
\* are cut off and the rest is rounded to nearest, ties to even
TimesRound(top, middle, low, k, exp) ==
    RoundToDouble(top \div 2^k,
                  (top % 2^k) * 2^(18 - k) + middle \div 2^k,
                  (middle % 2^k) * 2^(18 - k) + low \div 2^k,
                  exp + k, low % 2^k > 2^(k - 1), low % 2^k = 2^(k - 1))

\* the three pieces of a product, the carries of the lower pieces taken up
TimesCarry(top, middle, low, exp) ==
    TimesRound(top, middle, low, BitLength(top) - 17, exp)

\* x * 100.0
DoubleTimes100(x) ==
    TimesCarry(x.hi * 100 + (x.mid * 100 + (x.lo * 100) \div 2^18) \div 2^18,
               (x.mid * 100 + (x.lo * 100) \div 2^18) % 2^18,
               (x.lo * 100) % 2^18, x.exp)

\* the integer part of a positive double below 2^30
DoubleFloor(x) ==
    IF x.exp < 0 THEN 0
    ELSE IF x.exp <= 16 THEN x.hi \div 2^(16 - x.exp)
    ELSE x.hi * 2^(x.exp - 16) + x.mid \div 2^(34 - x.exp)

\* the double is an integer
DoubleIsWhole(x) ==
    IF x.exp < 0 THEN FALSE
    ELSE IF x.exp <= 16 THEN x.hi % 2^(16 - x.exp) = 0 /\ x.mid = 0 /\ x.lo = 0
    ELSE IF x.exp <= 34 THEN x.mid % 2^(34 - x.exp) = 0 /\ x.lo = 0
    ELSE IF x.exp <= 52 THEN x.lo % 2^(52 - x.exp) = 0
    ELSE TRUE

\* x >= t and x <= t for a positive double x and an integer t below 2^30
DoubleAtLeast(x, t) == t <= 0 \/ x.exp >= 30 \/ DoubleFloor(x) >= t
DoubleAtMost(x, t) ==
    /\ t > 0
    /\ x.exp < 30
    /\ (DoubleFloor(x) < t \/ (DoubleFloor(x) = t /\ DoubleIsWhole(x)))

(* ------------------- AlertConfig (src/src/config.py) -------------------- *)

\* mutant: the sign check is left out
IsValidAlways(cfg) == TRUE

\* AlertConfig.is_valid
IsValid(cfg) ==
    IF ~(cfg.tbq_tsq_threshold >= 0 /\ cfg.stability_threshold >= 0
         /\ cfg.stability_duration >= 0)
    THEN FALSE
    ELSE TRUE

SettingsRows == [tbq_tsq_threshold : ThresholdSettings,
                 stability_threshold : StabilityThresholdSettings,
                 stability_duration : StabilityDurationSettings]

\* the configurations a monitoring thread is constructed with
ThreadConfigs == {c \in SettingsRows : IsValid(c)}

(* ------------- MonitoringThread, pure parts (monitoring.py) ------------- *)

\* mutant: a zero previous quantity always gives 0.0
ChangePercentZeroPrevious(cur, prev) ==
    IF prev # 0 THEN Rat(cur - prev, prev) ELSE Rat(0, 1)

\* (tbq - prev_tbq) / prev_tbq if prev_tbq and prev_tbq != 0 else (1.0 if tbq > 0 else 0.0)
ChangePercent(cur, prev) ==
    IF prev # 0 THEN Rat(cur - prev, prev)
    ELSE IF cur > 0 THEN Rat(1, 1) ELSE Rat(0, 1)

\* mutant: the sell quantity is divided into without looking at it
RatioUnguarded(tbq, tsq) == Rat(tbq, tsq)

\* tbq / tsq if tsq else (tbq / 1.0 if tbq else 0.0)
Ratio(tbq, tsq) ==
    IF tsq # 0 THEN Rat(tbq, tsq)
    ELSE IF tbq # 0 THEN Rat(tbq, 1) ELSE Rat(0, 1)

\* mutant: the magnitude of the change is compared with the threshold
BreachAbsolute(pct, threshold) ==
    IF pct.num = 0 THEN 0 >= threshold
    ELSE DoubleAtLeast(DoubleTimes100(DoubleDiv(IF pct.num < 0 THEN 0 - pct.num
                                                ELSE pct.num, pct.den)), threshold)

\* change_percent * 100 >= tbq_tsq_threshold
Breach(pct, threshold) ==
    IF pct.num = 0 THEN 0 >= threshold
    ELSE IF pct.num > 0
    THEN DoubleAtLeast(DoubleTimes100(DoubleDiv(pct.num, pct.den)), threshold)
    ELSE DoubleAtMost(DoubleTimes100(DoubleDiv(0 - pct.num, pct.den)), 0 - threshold)

\* mutant: the high starts at 0 and is not raised to the current quantity
DayHighNotRaised(map, s, q) == DictGet(map, s, 0)

\* current_day_high = map.get(symbol, q); stored and reported anew only if q > it
DayHigh(map, s, q) ==
    LET cur == DictGet(map, s, q) IN IF q > cur THEN q ELSE cur
DayHighMap(map, s, q) ==
    LET cur == DictGet(map, s, q) IN IF q > cur THEN [map EXCEPT ![s] = q] ELSE map

\* mutant: the default of map.get is 0 instead of the current quantity
DayLowDefaultZero(map, s, q) ==
    LET cur == DictGet(map, s, 0) IN IF q < cur THEN q ELSE cur

\* current_day_low = map.get(symbol, q); stored and reported anew only if q < it
DayLow(map, s, q) ==
    LET cur == DictGet(map, s, q) IN IF q < cur THEN q ELSE cur
DayLowMap(map, s, q) ==
    LET cur == DictGet(map, s, q) IN IF q < cur THEN [map EXCEPT ![s] = q] ELSE map

\* mutant: the cooldown still holds at exactly 300 s
CheckAlertCooldownInclusive(cd, s, k, t) ==
    IF cd[<<s, k>>] # Absent /\ t - cd[<<s, k>>] <= CooldownSeconds
    THEN FALSE
    ELSE TRUE

\* _check_alert_cooldown: FALSE while the last alert of the key is younger than 300 s
CheckAlertCooldown(cd, s, k, t) ==
    IF cd[<<s, k>>] # Absent /\ t - cd[<<s, k>>] < CooldownSeconds
    THEN FALSE
    ELSE TRUE

\* mutant: the cooldown is recorded for the symbol, whatever the alert type
UpdateAlertCooldownPerSymbol(cd, s, k, t) ==
    [key \in Keys |-> IF key[1] = s THEN t ELSE cd[key]]

\* _update_alert_cooldown
UpdateAlertCooldown(cd, s, k, t) == [cd EXCEPT ![<<s, k>>] = t]

\* |cur - base| / base * 100 if base else 0, compared with the stability threshold
WithinDeviation(cur, base, threshold) ==
    IF base # 0 /\ cur # base
    THEN DoubleAtMost(DoubleTimes100(DoubleDiv(IF cur >= base THEN cur - base
                                               ELSE base - cur, base)), threshold)
    ELSE 0 <= threshold

\* _check_stability
CheckStability(lb, s, data, threshold) ==
    IF ~lb[s].present
    THEN FALSE
    ELSE /\ WithinDeviation(data.tbq, lb[s].tbq, threshold)
         /\ WithinDeviation(data.tsq, lb[s].tsq, threshold)

\* mutant: the sell quantity is kept in the place of the buy quantity
StoredSellForBuy(data) ==
    [present |-> TRUE, tbq |-> data.tsq, tsq |-> data.tsq,
     day_high_tbq |-> data.day_high_tbq, day_low_tbq |-> data.day_low_tbq,
     day_high_tsq |-> data.day_high_tsq, day_low_tsq |-> data.day_low_tsq]

\* the fields of a VolumeData kept when it is stored as previous or baseline data
Stored(data) ==
    [present |-> TRUE, tbq |-> data.tbq, tsq |-> data.tsq,
     day_high_tbq |-> data.day_high_tbq, day_low_tbq |-> data.day_low_tbq,
     day_high_tsq |-> data.day_high_tsq, day_low_tsq |-> data.day_low_tsq]

\* mutant: a triggered alert does not activate the stability check
TriggerAlertsNoRestart(data, cd, act, st, lb, t, cfg, tbq_breach, tsq_breach, is_stable) ==
    LET s == data.symbol
        fireB == tbq_breach /\ CheckAlertCooldown(cd, s, "TBQ Spike", t)
        cd1 == IF fireB THEN UpdateAlertCooldown(cd, s, "TBQ Spike", t) ELSE cd
        fireS == tsq_breach /\ CheckAlertCooldown(cd1, s, "TSQ Spike", t)
        cd2 == IF fireS THEN UpdateAlertCooldown(cd1, s, "TSQ Spike", t) ELSE cd1
        alerts == (IF fireB THEN <<"TBQ Spike">> ELSE <<>>)
                  \o (IF fireS THEN <<"TSQ Spike">> ELSE <<>>)
        act1 == act
        st1 == IF fireB \/ fireS THEN [st EXCEPT ![s] = Absent] ELSE st
        checking == act1[s] = "True" /\ alerts = <<>>
        stable == checking /\ is_stable
        st2 == IF stable /\ st1[s] = Absent THEN [st1 EXCEPT ![s] = t] ELSE st1
        promote == stable /\ t - st2[s] >= cfg.stability_duration
        data1 == IF promote
                 THEN [data EXCEPT !.is_tbq_baseline = TRUE, !.is_tsq_baseline = TRUE]
                 ELSE data
    IN  [alerts |-> alerts,
         cooldown |-> cd2,
         active |-> IF promote THEN [act1 EXCEPT ![s] = "False"] ELSE act1,
         start_times |-> IF ~checking THEN st1
                         ELSE IF ~stable \/ promote THEN [st1 EXCEPT ![s] = Absent]
                         ELSE st2,
         baseline |-> IF promote THEN [lb EXCEPT ![s] = Stored(data1)] ELSE lb,
         data |-> data1]

CheckAndTriggerAlertsNoRestart(data, cd, act, st, lb, t, enabled, cfg) ==
    TriggerAlertsNoRestart(data, cd, act, st, lb, t, cfg,
        enabled /\ Breach(data.tbq_change_percent, cfg.tbq_tsq_threshold),
        enabled /\ Breach(data.tsq_change_percent, cfg.tbq_tsq_threshold),
        CheckStability(lb, data.symbol, data, cfg.stability_threshold))

\* _check_and_trigger_alerts, lines 316-365, given what its three comparisons
\* with the thresholds say: tbq_breach and tsq_breach (setting on and change
\* percent x 100 >= threshold) and is_stable (_check_stability)
TriggerAlerts(data, cd, act, st, lb, t, cfg, tbq_breach, tsq_breach, is_stable) ==
    LET s == data.symbol
        fireB == tbq_breach /\ CheckAlertCooldown(cd, s, "TBQ Spike", t)
        cd1 == IF fireB THEN UpdateAlertCooldown(cd, s, "TBQ Spike", t) ELSE cd
        fireS == tsq_breach /\ CheckAlertCooldown(cd1, s, "TSQ Spike", t)
        cd2 == IF fireS THEN UpdateAlertCooldown(cd1, s, "TSQ Spike", t) ELSE cd1
        alerts == (IF fireB THEN <<"TBQ Spike">> ELSE <<>>)
                  \o (IF fireS THEN <<"TSQ Spike">> ELSE <<>>)
        act1 == IF fireB \/ fireS THEN [act EXCEPT ![s] = "True"] ELSE act
        st1 == IF fireB \/ fireS THEN [st EXCEPT ![s] = Absent] ELSE st
        checking == act1[s] = "True" /\ alerts = <<>>
        stable == checking /\ is_stable
        st2 == IF stable /\ st1[s] = Absent THEN [st1 EXCEPT ![s] = t] ELSE st1
        promote == stable /\ t - st2[s] >= cfg.stability_duration
        data1 == IF promote
                 THEN [data EXCEPT !.is_tbq_baseline = TRUE, !.is_tsq_baseline = TRUE]
                 ELSE data
    IN  [alerts |-> alerts,
         cooldown |-> cd2,
         active |-> IF promote THEN [act1 EXCEPT ![s] = "False"] ELSE act1,
         start_times |-> IF ~checking THEN st1
                         ELSE IF ~stable \/ promote THEN [st1 EXCEPT ![s] = Absent]
                         ELSE st2,
         baseline |-> IF promote THEN [lb EXCEPT ![s] = Stored(data1)] ELSE lb,
         data |-> data1]

\* _check_and_trigger_alerts: the triggered alert types and the state it leaves
CheckAndTriggerAlerts(data, cd, act, st, lb, t, enabled, cfg) ==
    TriggerAlerts(data, cd, act, st, lb, t, cfg,
        enabled /\ Breach(data.tbq_change_percent, cfg.tbq_tsq_threshold),
        enabled /\ Breach(data.tsq_change_percent, cfg.tbq_tsq_threshold),
        CheckStability(lb, data.symbol, data, cfg.stability_threshold))

(* ------------------------------- Init ----------------------------------- *)

\* A MonitoringThread after __init__ and set_monitored_symbols, not yet started,
\* a RequestTokenServer and the trades table before any use. MainWindow() gives
\* no window: __init__ ends with TypeError at main.py line 291 (MainWindowInit).
\* With main_window "None" no window exists and the attributes of the window
\* are placeholders no action reads; "assembled" is an object whose attributes
\* hold what __init__ (lines 284-324) assigns, put together without the call of
\* line 291, the only way a method of the window can run at all
Init ==
    /\ main_window \in {"None", "assembled"}
    /\ monitored_symbols \in Watchlists
    /\ now \in StartTimes(monitored_symbols)
    /\ today = 0
    /\ market_open \in BOOLEAN
    /\ trade_on_tbq_tsq_alert = TRUE
    \* line 298 sets kite to None; _initialize_kite_from_db_settings (main.py
    \* lines 701-716) makes a KiteConnect when the key rows are filled in
    /\ kite \in IF main_window = "assembled" THEN BOOLEAN ELSE {FALSE}
    /\ settings \in ThreadConfigs
    /\ user_selected_symbols = <<>>
    /\ specific_monitored_symbol = "None"
    /\ config = settings
    /\ monitoring_thread = "None"
    /\ start_outcome = "none"
    /\ invalid_symbol_box = FALSE
    /\ thread_config \in ThreadConfigs
    /\ previous_volume_data = [s \in Symbols |-> NoData]
    /\ tbq_baselines = [s \in Symbols |-> Absent]
    /\ tsq_baselines = [s \in Symbols |-> Absent]
    /\ symbol_daily_max_tbq = [s \in Symbols |-> Absent]
    /\ symbol_daily_min_tbq = [s \in Symbols |-> Absent]
    /\ symbol_daily_max_tsq = [s \in Symbols |-> Absent]
    /\ symbol_daily_min_tsq = [s \in Symbols |-> Absent]
    /\ last_reset_date = 0
    /\ running = TRUE
    /\ paused = FALSE
    /\ alert_cooldown = [k \in Keys |-> Absent]
    /\ stability_check_active = [s \in Symbols |-> "absent"]
    /\ stability_start_times = [s \in Symbols |-> Absent]
    /\ last_baseline_data = [s \in Symbols |-> NoData]
    /\ db_manager = "None"
    /\ db_errors = 0
    /\ pc = "unstarted"
    /\ iter_symbols = <<>>
    /\ idx = 0
    /\ volume_update = {}
    /\ error_occurred = 0
    /\ alert_triggered = {}
    /\ status_changed = "none"
    /\ last_result = NoResult
    /\ h_fetch_ok = {}
    /\ h_fetch_failed = {}
    /\ h_before = NoBefore
    /\ h_date = [s \in Symbols |-> Absent]
    /\ h_fired = [k \in Keys |-> Absent]
    /\ h_watch = [s \in Symbols |-> NoWatch]
    /\ h_today = [s \in Symbols |-> NoToday]
    /\ h_start = [called |-> FALSE]
    /\ h_outcomes = {}
    /\ h_stop = NoStop
    /\ h_auth_failed = FALSE
    /\ server_running = FALSE
    /\ server = 0
    /\ server_thread = 0
    /\ thread_pc = [i \in ServerThreads |-> "unstarted"]
    /\ shutdown_request = [i \in ServerThreads |-> FALSE]
    /\ is_shut_down = [i \in ServerThreads |-> FALSE]
    /\ socket_open = [i \in ServerThreads |-> FALSE]
    /\ server_error = 0
    /\ token_received = 0
    /\ requests = 0
    /\ stop_pc = "idle"
    /\ stop_target = 0
    /\ h_stopped = FALSE
    /\ dialog = [state |-> "None", kite |-> FALSE, box |-> "none", order_id |-> "None"]
    /\ budget_cap = 0
    /\ trades = <<>>
    /\ order_placed = <<>>
    /\ place_order_calls = 0
    /\ warnings = 0
    /\ h_order = NoOrder

(* ----------------------- MonitoringThread.run --------------------------- *)

\* what DatabaseManager(self.db_path) at line 75 may do
DatabaseOpens == {"opened", "raises"}

\* QThread.start(): run() emits the status (line 74) and opens its
\* DatabaseManager (line 75). Line 75 stands before the try statement: when it
\* raises, run() ends there, with no DatabaseManager to close and the finally
\* block not entered
ThreadStart ==
    /\ pc = "unstarted"
    /\ status_changed' = "started"
    /\ \E outcome \in DatabaseOpens :
        IF outcome = "opened"
        THEN /\ pc' = "loop"
             /\ db_manager' = "open"
        ELSE /\ pc' = "finished"
             /\ UNCHANGED db_manager
    /\ UNCHANGED <<envVars, mwVars, symVars, dailyVars, ctlVars, iter_symbols, idx,
                   last_reset_date, volume_update, error_occurred, alert_triggered,
                   last_result, histVars>>
    /\ UNCHANGED <<appVars, db_errors>>

\* mutant: the date is compared only once the market is found open
DailyResetWhenOpen ==
    IF today # last_reset_date /\ market_open
    THEN /\ symbol_daily_max_tbq' = [s \in Symbols |-> Absent]
         /\ symbol_daily_min_tbq' = [s \in Symbols |-> Absent]
         /\ symbol_daily_max_tsq' = [s \in Symbols |-> Absent]
         /\ symbol_daily_min_tsq' = [s \in Symbols |-> Absent]
         /\ last_reset_date' = today
    ELSE UNCHANGED <<dailyVars, last_reset_date>>

\* lines 89-97: a new date clears the four daily maps
DailyReset ==
    IF today # last_reset_date
    THEN /\ symbol_daily_max_tbq' = [s \in Symbols |-> Absent]
         /\ symbol_daily_min_tbq' = [s \in Symbols |-> Absent]
         /\ symbol_daily_max_tsq' = [s \in Symbols |-> Absent]
         /\ symbol_daily_min_tsq' = [s \in Symbols |-> Absent]
         /\ last_reset_date' = today
    ELSE UNCHANGED <<dailyVars, last_reset_date>>

\* while self.running fails: the finally block closes the DatabaseManager
LoopExit ==
    /\ pc = "loop"
    /\ ~running
    /\ pc' = "finished"
    /\ db_manager' = "closed"
    /\ UNCHANGED <<envVars, mwVars, symVars, dailyVars, ctlVars, iter_symbols, idx,
                   last_reset_date, sigVars, histVars>>
    /\ UNCHANGED <<appVars, db_errors>>

\* the paused branch: a status message, then time.sleep(1) is entered
PausedWait ==
    /\ pc = "loop"
    /\ running
    /\ paused
    /\ status_changed' = "paused"
    /\ pc' = "paused_sleep"
    /\ UNCHANGED <<envVars, mwVars, symVars, dailyVars, ctlVars, iter_symbols, idx,
                   db_manager, last_reset_date, volume_update, error_occurred,
                   alert_triggered, last_result, histVars>>
    /\ UNCHANGED <<appVars, db_errors>>

\* mutant: a closed market ends the loop
MarketClosedStops ==
    /\ pc = "loop"
    /\ running
    /\ ~paused
    /\ ~market_open
    /\ DailyReset
    /\ status_changed' = "market closed"
    /\ pc' = "finished"
    /\ db_manager' = "closed"
    /\ UNCHANGED <<envVars, mwVars, symVars, ctlVars, iter_symbols, idx,
                   volume_update, error_occurred, alert_triggered, last_result,
                   histVars>>
    /\ UNCHANGED <<appVars, db_errors>>

\* market closed: the daily reset, a status message, then time.sleep(60) is
\* entered
MarketClosedWait ==
    /\ pc = "loop"
    /\ running
    /\ ~paused
    /\ ~market_open
    /\ DailyReset
    /\ status_changed' = "market closed"
    /\ pc' = "closed_sleep"
    /\ UNCHANGED <<envVars, mwVars, symVars, ctlVars, iter_symbols, idx, db_manager,
                   volume_update, error_occurred, alert_triggered, last_result,
                   histVars>>
    /\ UNCHANGED <<appVars, db_errors>>

\* mutant: the paused flag is not looked at
BeginTickIgnoringPause ==
    /\ pc = "loop"
    /\ running
    /\ market_open
    /\ DailyReset
    /\ pc' = "for"
    /\ iter_symbols' = monitored_symbols
    /\ idx' = 1
    /\ volume_update' = {}
    /\ error_occurred' = 0
    /\ alert_triggered' = {}
    /\ last_result' = NoResult
    /\ h_fetch_ok' = {}
    /\ h_fetch_failed' = {}
    /\ h_before' = NoBefore
    /\ UNCHANGED <<envVars, mwVars, symVars, ctlVars, db_manager, status_changed,
                   h_date, h_fired, h_watch, h_today, h_start, h_outcomes, h_stop,
                   h_auth_failed>>
    /\ UNCHANGED <<appVars, db_errors>>

\* mutant: the market hours are not looked at
BeginTickIgnoringMarket ==
    /\ pc = "loop"
    /\ running
    /\ ~paused
    /\ DailyReset
    /\ pc' = "for"
    /\ iter_symbols' = monitored_symbols
    /\ idx' = 1
    /\ volume_update' = {}
    /\ error_occurred' = 0
    /\ alert_triggered' = {}
    /\ last_result' = NoResult
    /\ h_fetch_ok' = {}
    /\ h_fetch_failed' = {}
    /\ h_before' = NoBefore
    /\ UNCHANGED <<envVars, mwVars, symVars, ctlVars, db_manager, status_changed,
                   h_date, h_fired, h_watch, h_today, h_start, h_outcomes, h_stop,
                   h_auth_failed>>
    /\ UNCHANGED <<appVars, db_errors>>

\* market open: the daily reset, then the for loop over self.monitored_symbols begins
BeginTick ==
    /\ pc = "loop"
    /\ running
    /\ ~paused
    /\ market_open
    /\ DailyReset
    /\ pc' = "for"
    /\ iter_symbols' = monitored_symbols
    /\ idx' = 1
    /\ volume_update' = {}
    /\ error_occurred' = 0
    /\ alert_triggered' = {}
    /\ last_result' = NoResult
    /\ h_fetch_ok' = {}
    /\ h_fetch_failed' = {}
    /\ h_before' = NoBefore
    /\ UNCHANGED <<envVars, mwVars, symVars, ctlVars, db_manager, status_changed,
                   h_date, h_fired, h_watch, h_today, h_start, h_outcomes, h_stop,
                   h_auth_failed>>
    /\ UNCHANGED <<appVars, db_errors>>

\* lines 131-133: no manager knows the symbol; a printed warning, then continue
SkipUnresolved ==
    /\ pc = "for"
    /\ idx <= Len(iter_symbols)
    /\ iter_symbols[idx] \notin TradableSymbols
    /\ idx' = idx + 1
    /\ last_result' = NoResult
    /\ h_before' = NoBefore
    /\ UNCHANGED <<envVars, mwVars, symVars, dailyVars, ctlVars, pc, iter_symbols,
                   db_manager, last_reset_date, volume_update, error_occurred,
                   alert_triggered, status_changed, h_fetch_ok, h_fetch_failed,
                   h_date, h_fired, h_watch, h_today, h_start, h_outcomes, h_stop,
                   h_auth_failed>>
    /\ UNCHANGED <<appVars, db_errors>>

\* lines 303-305: the handler of _fetch_and_process_live_data emits one error
ErrorsAfterFailure(n) == n + 1

\* what kite.quote may raise: a network error or a rejected access token
FailureKinds == {"network", "auth"}

\* kite.quote raises (line 170), before anything is written: whatever the
\* exception, the handler emits the error and
\* returns, and the for loop goes on
FetchFails ==
    /\ pc = "for"
    /\ idx <= Len(iter_symbols)
    /\ iter_symbols[idx] \in TradableSymbols
    /\ \E kind \in FailureKinds : h_auth_failed' = (h_auth_failed \/ kind = "auth")
    /\ error_occurred' = ErrorsAfterFailure(error_occurred)
    /\ h_fetch_failed' = h_fetch_failed \cup {iter_symbols[idx]}
    /\ idx' = idx + 1
    /\ last_result' = NoResult
    /\ h_before' = NoBefore
    /\ UNCHANGED <<envVars, mwVars, symVars, dailyVars, ctlVars, pc, iter_symbols,
                   db_manager, last_reset_date, volume_update, alert_triggered,
                   status_changed, h_fetch_ok, h_date, h_fired, h_watch, h_today,
                   h_start, h_outcomes, h_stop>>
    /\ UNCHANGED <<appVars, db_errors>>

\* History of the stability watch as the alert rules describe it: an alert takes
\* the snapshot and activates the watch; a later tick without alert is "stable"
\* when both sides are within the stability threshold of the snapshot; the
\* stable run is measured from its first tick (since); a tick outside the band
\* breaks the run; the tick at which the run has lasted the stability duration
\* is the one expected to promote
WatchVerdict(w, alerts, b, q, t, cfg) ==
    IF alerts # <<>> THEN "alert"
    ELSE IF ~w.active THEN "none"
    ELSE IF ~(/\ WithinDeviation(b, w.tbq, cfg.stability_threshold)
              /\ WithinDeviation(q, w.tsq, cfg.stability_threshold))
         THEN "break"
    ELSE IF t - (IF w.since = Absent THEN t ELSE w.since) >= cfg.stability_duration
         THEN "promote"
    ELSE "stable"

WatchAfter(w, v, b, q, t) ==
    IF v = "alert"
    THEN [active |-> TRUE, tbq |-> b, tsq |-> q, since |-> Absent, broken |-> FALSE]
    ELSE IF v = "break" THEN [w EXCEPT !.since = Absent, !.broken = TRUE]
    ELSE IF v = "stable" THEN [w EXCEPT !.since = IF @ = Absent THEN t ELSE @]
    ELSE IF v = "promote"
    THEN [active |-> FALSE, tbq |-> b, tsq |-> q, since |-> Absent, broken |-> FALSE]
    ELSE w

\* History of the quantities seen for a symbol on the current date
TodayAfter(h, seenDate, b, q) ==
    IF seenDate # today
    THEN [minb |-> b, maxb |-> b, mins |-> q, maxs |-> q]
    ELSE [minb |-> IF b < h.minb THEN b ELSE h.minb,
          maxb |-> IF b > h.maxb THEN b ELSE h.maxb,
          mins |-> IF q < h.mins THEN q ELSE h.mins,
          maxs |-> IF q > h.maxs THEN q ELSE h.maxs]

\* ", ".join(triggered_alert_types)
RECURSIVE JoinAlertTypes(_)
JoinAlertTypes(alerts) ==
    IF alerts = <<>> THEN ""
    ELSE IF Len(alerts) = 1 THEN alerts[1]
    ELSE alerts[1] \o ", " \o JoinAlertTypes(Tail(alerts))

\* mutant: one alert_triggered emission for each triggered alert type
AlertEventsPerType(s, alerts) ==
    [i \in 1..Len(alerts) |-> [symbol |-> s, message |-> alerts[i], primary |-> alerts[i]]]

\* lines 296-301: the alert_triggered emissions of one processed symbol, a single
\* one carrying the joined alert types when any alert was triggered
AlertEvents(s, alerts) ==
    IF alerts # <<>>
    THEN <<[symbol |-> s, message |-> JoinAlertTypes(alerts), primary |-> alerts[1]]>>
    ELSE <<>>

\* _fetch_and_process_live_data, lines 200-277: the VolumeData made of a quote of
\* buy quantity b and sell quantity q
QuoteData(s, b, q) ==
    LET prev == previous_volume_data[s]
        prev_tbq == IF prev.present THEN prev.tbq ELSE 0
        prev_tsq == IF prev.present THEN prev.tsq ELSE 0
    IN  [symbol |-> s,
         tbq |-> b,
         tsq |-> q,
         tbq_change_percent |-> ChangePercent(b, prev_tbq),
         tsq_change_percent |-> ChangePercent(q, prev_tsq),
         ratio |-> Ratio(b, q),
         is_tbq_baseline |-> tbq_baselines[s] = Absent,
         is_tsq_baseline |-> tsq_baselines[s] = Absent,
         day_high_tbq |-> DayHigh(symbol_daily_max_tbq, s, b),
         day_low_tbq |-> DayLow(symbol_daily_min_tbq, s, b),
         day_high_tsq |-> DayHigh(symbol_daily_max_tsq, s, q),
         day_low_tsq |-> DayLow(symbol_daily_min_tsq, s, q)]

\* _fetch_and_process_live_data, lines 216-249: the baselines of a symbol seen
\* for the first time and the four daily maps are written as soon as the quote
\* is read
QuoteObserved(s, b, q) ==
    /\ tbq_baselines' = IF tbq_baselines[s] = Absent
                        THEN [tbq_baselines EXCEPT ![s] = b] ELSE tbq_baselines
    /\ tsq_baselines' = IF tsq_baselines[s] = Absent
                        THEN [tsq_baselines EXCEPT ![s] = q] ELSE tsq_baselines
    /\ symbol_daily_max_tbq' = DayHighMap(symbol_daily_max_tbq, s, b)
    /\ symbol_daily_min_tbq' = DayLowMap(symbol_daily_min_tbq, s, b)
    /\ symbol_daily_max_tsq' = DayHighMap(symbol_daily_max_tsq, s, q)
    /\ symbol_daily_min_tsq' = DayLowMap(symbol_daily_min_tsq, s, q)

\* _fetch_and_process_live_data, lines 216-301: what is stored and emitted for
\* the quote, r being what _check_and_trigger_alerts has returned for it and
\* verdict what the history of the stability watch says of the tick
QuoteProcessed(s, b, q, r, verdict) ==
    /\ QuoteObserved(s, b, q)
    /\ alert_cooldown' = r.cooldown
    /\ stability_check_active' = r.active
    /\ stability_start_times' = r.start_times
    /\ last_baseline_data' = r.baseline
    /\ previous_volume_data' = [previous_volume_data EXCEPT ![s] = Stored(r.data)]
    /\ volume_update' = volume_update \cup {s}
    /\ alert_triggered' = IF r.alerts # <<>> THEN alert_triggered \cup {s}
                          ELSE alert_triggered
    /\ last_result' = [present |-> TRUE, data |-> r.data, alerts |-> r.alerts,
                       alert_triggered |-> r.alerts # <<>>,
                       alert_events |-> AlertEvents(s, r.alerts)]
    /\ h_fetch_ok' = h_fetch_ok \cup {s}
    /\ h_before' = [valid |-> TRUE,
                    enabled |-> trade_on_tbq_tsq_alert,
                    previous |-> previous_volume_data[s],
                    date |-> h_date[s],
                    fired |-> [k \in AlertTypes |-> h_fired[<<s, k>>]],
                    tbq_baseline |-> tbq_baselines[s],
                    tsq_baseline |-> tsq_baselines[s],
                    active |-> stability_check_active[s],
                    watch |-> h_watch[s],
                    verdict |-> verdict]
    /\ h_today' = [h_today EXCEPT ![s] = TodayAfter(@, h_date[s], b, q)]
    /\ h_date' = [h_date EXCEPT ![s] = today]
    /\ h_fired' = [k \in Keys |->
                     IF k[1] = s /\ \E i \in 1..Len(r.alerts) : r.alerts[i] = k[2]
                     THEN now ELSE h_fired[k]]
    /\ h_watch' = [h_watch EXCEPT ![s] = WatchAfter(@, verdict, b, q, now)]

\* lines 280-290: the alerts of the result are checked before it is stored
QuoteChecked(s, b, q, r) ==
    QuoteProcessed(s, b, q, r,
                   WatchVerdict(h_watch[s], r.alerts, b, q, now, thread_config))

\* _fetch_and_process_live_data with a quote of buy quantity b and sell quantity q
ProcessQuote ==
    /\ pc = "for"
    /\ idx <= Len(iter_symbols)
    /\ iter_symbols[idx] \in TradableSymbols
    /\ \E quote \in Quotes(iter_symbols[idx]) :
        QuoteChecked(iter_symbols[idx], quote[1], quote[2],
                     CheckAndTriggerAlerts(QuoteData(iter_symbols[idx], quote[1], quote[2]),
                                           alert_cooldown, stability_check_active,
                                           stability_start_times, last_baseline_data,
                                           now, trade_on_tbq_tsq_alert, thread_config))
    /\ idx' = idx + 1
    /\ UNCHANGED <<envVars, mwVars, ctlVars, pc, iter_symbols, db_manager,
                   last_reset_date, error_occurred, status_changed, h_fetch_failed,
                   h_start, h_outcomes, h_stop, h_auth_failed>>
    /\ UNCHANGED <<appVars, db_errors>>

\* the database calls of the try body, which catch nothing: get_setting at line
\* 312, the first statement of _check_and_trigger_alerts that may raise, and
\* log_volume_data at line 287, made once _check_and_trigger_alerts has returned
RaisePoints == {"get_setting", "log_volume_data"}

\* lines 216-287 and 303-305: the quote was read and a database call raises at
\* point (the database file is locked by another writer, say). What was written
\* before stays: the baselines and the daily maps, and past line 280 what
\* _check_and_trigger_alerts has recorded (r), the cooldown of the alerts it has
\* decided to fire included. The handler emits error_occurred; the result is
\* neither stored nor emitted, and no alert is
QuoteFailed(s, b, q, r, point) ==
    /\ QuoteObserved(s, b, q)
    /\ alert_cooldown' = IF point = "log_volume_data" THEN r.cooldown
                         ELSE alert_cooldown
    /\ stability_check_active' = IF point = "log_volume_data" THEN r.active
                                 ELSE stability_check_active
    /\ stability_start_times' = IF point = "log_volume_data" THEN r.start_times
                                ELSE stability_start_times
    /\ last_baseline_data' = IF point = "log_volume_data" THEN r.baseline
                             ELSE last_baseline_data
    /\ error_occurred' = ErrorsAfterFailure(error_occurred)
    /\ last_result' = NoResult
    /\ h_fetch_ok' = h_fetch_ok \cup {s}
    /\ h_before' = NoBefore
    /\ h_fired' = IF point = "log_volume_data"
                  THEN [k \in Keys |->
                          IF k[1] = s /\ \E i \in 1..Len(r.alerts) : r.alerts[i] = k[2]
                          THEN now ELSE h_fired[k]]
                  ELSE h_fired
    /\ h_watch' = IF point = "log_volume_data"
                  THEN [h_watch EXCEPT ![s] =
                          WatchAfter(@, WatchVerdict(@, r.alerts, b, q, now, thread_config),
                                     b, q, now)]
                  ELSE h_watch

\* _fetch_and_process_live_data with a quote of buy quantity b and sell quantity
\* q, ended by an exception of a database call
ProcessingFails ==
    /\ pc = "for"
    /\ idx <= Len(iter_symbols)
    /\ iter_symbols[idx] \in TradableSymbols
    /\ db_errors < MaxDbErrors
    /\ db_errors' = db_errors + 1
    /\ \E quote \in Quotes(iter_symbols[idx]), point \in RaisePoints :
        QuoteFailed(iter_symbols[idx], quote[1], quote[2],
                    CheckAndTriggerAlerts(QuoteData(iter_symbols[idx], quote[1], quote[2]),
                                          alert_cooldown, stability_check_active,
                                          stability_start_times, last_baseline_data,
                                          now, trade_on_tbq_tsq_alert, thread_config),
                    point)
    /\ idx' = idx + 1
    /\ UNCHANGED <<envVars, mwVars, ctlVars, pc, iter_symbols, db_manager,
                   last_reset_date, previous_volume_data, volume_update,
                   alert_triggered, status_changed, h_fetch_failed, h_date, h_today,
                   h_start, h_outcomes, h_stop, h_auth_failed>>
    /\ UNCHANGED appVars

\* the for loop is exhausted: a status message, then time.sleep(5) is entered
EndTick ==
    /\ pc = "for"
    /\ idx > Len(iter_symbols)
    /\ pc' = "tick_sleep"
    /\ status_changed' = "active"
    /\ last_result' = NoResult
    /\ h_before' = NoBefore
    /\ UNCHANGED <<envVars, mwVars, symVars, dailyVars, ctlVars, iter_symbols, idx,
                   db_manager, last_reset_date, volume_update, error_occurred,
                   alert_triggered, h_fetch_ok, h_fetch_failed, h_date, h_fired,
                   h_watch, h_today, h_start, h_outcomes, h_stop, h_auth_failed>>
    /\ UNCHANGED <<appVars, db_errors>>

\* time.sleep returns after its duration or later: the clock has advanced and
\* the thread is back at the head of the while loop
SleepReturns ==
    /\ pc \in Sleeps
    /\ now' \in AfterSleep(SleepSeconds(pc))
    /\ now' <= MaxTime
    /\ pc' = "loop"
    /\ UNCHANGED <<today, market_open, trade_on_tbq_tsq_alert, kite, settings,
                   user_selected_symbols, specific_monitored_symbol, mwVars, symVars,
                   dailyVars, ctlVars, iter_symbols, idx, db_manager, last_reset_date,
                   sigVars, histVars>>
    /\ UNCHANGED <<appVars, db_errors>>

(* --------------------- MonitoringThread controls ------------------------ *)

\* pause_monitoring
PauseMonitoring ==
    /\ pc \in Started
    /\ ~paused
    /\ paused' = TRUE
    /\ UNCHANGED <<envVars, mwVars, symVars, dailyVars, thread_config,
                   monitored_symbols, running, loopVars, sigVars, histVars>>
    /\ UNCHANGED <<appVars, db_errors>>

\* resume_monitoring
ResumeMonitoring ==
    /\ pc \in Started
    /\ paused
    /\ paused' = FALSE
    /\ UNCHANGED <<envVars, mwVars, symVars, dailyVars, thread_config,
                   monitored_symbols, running, loopVars, sigVars, histVars>>
    /\ UNCHANGED <<appVars, db_errors>>

\* stop_monitoring, line 406: the flag is cleared; the caller then enters
\* self.wait(). The method is public and asks nothing of the thread: it may be
\* called before start(), while run() is in its loop and after run() has ended.
\* A call that finds the flag cleared changes nothing and waits like the first
StopMonitoring ==
    /\ running
    /\ running' = FALSE
    /\ h_stop' = [called |-> TRUE, returned |-> FALSE, at |-> now, back |-> Absent,
                  pc |-> pc, position |-> IF pc = "for" THEN idx ELSE 0]
    /\ UNCHANGED <<envVars, mwVars, symVars, dailyVars, thread_config,
                   monitored_symbols, paused, loopVars, sigVars, h_fetch_ok,
                   h_fetch_failed, h_before, h_date, h_fired, h_watch, h_today,
                   h_start, h_outcomes, h_auth_failed>>
    /\ UNCHANGED <<appVars, db_errors>>

\* mutant: the wait gives up without the thread having finished
StopReturnsWithoutWaiting ==
    /\ h_stop.called
    /\ ~h_stop.returned
    /\ h_stop' = [h_stop EXCEPT !.returned = TRUE, !.back = now]
    /\ UNCHANGED <<envVars, mwVars, symVars, dailyVars, ctlVars, loopVars, sigVars,
                   h_fetch_ok, h_fetch_failed, h_before, h_date, h_fired, h_watch,
                   h_today, h_start, h_outcomes, h_auth_failed>>
    /\ UNCHANGED <<appVars, db_errors>>

\* stop_monitoring, line 407: self.wait() has no timeout; it returns when run()
\* has returned, and at once on a thread that is not running (run() ended
\* already, or start() not called yet)
StopReturns ==
    /\ h_stop.called
    /\ ~h_stop.returned
    /\ pc \in {"unstarted", "finished"}
    /\ h_stop' = [h_stop EXCEPT !.returned = TRUE, !.back = now]
    /\ UNCHANGED <<envVars, mwVars, symVars, dailyVars, ctlVars, loopVars, sigVars,
                   h_fetch_ok, h_fetch_failed, h_before, h_date, h_fired, h_watch,
                   h_today, h_start, h_outcomes, h_auth_failed>>
    /\ UNCHANGED <<appVars, db_errors>>

\* mutant: the list the for loop iterates is overwritten in place
SetMonitoredSymbolsInPlace ==
    /\ pc \in Started
    /\ \E w \in Watchlists :
        /\ w # monitored_symbols
        /\ \E t \in StartTimes(w) : now >= t
        /\ monitored_symbols' = w
        /\ iter_symbols' = IF pc = "for" THEN w ELSE iter_symbols
    /\ UNCHANGED <<envVars, mwVars, symVars, dailyVars, thread_config, running,
                   paused, pc, idx, db_manager, last_reset_date, sigVars, histVars>>
    /\ UNCHANGED <<appVars, db_errors>>

\* set_monitored_symbols called with a new list while the thread runs (a
\* watchlist is given to the thread no earlier than its StartTimes)
SetMonitoredSymbols ==
    /\ pc \in Started
    /\ \E w \in Watchlists :
        /\ w # monitored_symbols
        /\ \E t \in StartTimes(w) : now >= t
        /\ monitored_symbols' = w
    /\ UNCHANGED <<envVars, mwVars, symVars, dailyVars, thread_config, running,
                   paused, loopVars, sigVars, histVars>>
    /\ UNCHANGED <<appVars, db_errors>>

(* ----------------------------- environment ------------------------------ *)

\* midnight passes; the market is closed then and no tick spans it
DateChanges ==
    /\ ~market_open
    /\ pc \in {"loop"} \cup Sleeps
    /\ today < MaxDay
    /\ today' = today + 1
    /\ UNCHANGED <<now, market_open, trade_on_tbq_tsq_alert, kite, settings,
                   user_selected_symbols, specific_monitored_symbol, mwVars, symVars,
                   dailyVars, ctlVars, loopVars,
                   sigVars, histVars>>
    /\ UNCHANGED <<appVars, db_errors>>

\* the time of day enters or leaves 09:00..15:30 (read at the loop head only;
\* a tick takes no time of the model's clock)
MarketHoursChange ==
    /\ pc \in {"loop"} \cup Sleeps
    /\ market_open' = ~market_open
    /\ UNCHANGED <<now, today, trade_on_tbq_tsq_alert, kite, settings,
                   user_selected_symbols, specific_monitored_symbol, mwVars, symVars,
                   dailyVars, ctlVars, loopVars,
                   sigVars, histVars>>
    /\ UNCHANGED <<appVars, db_errors>>

\* MainWindow.on_api_keys_saved, main.py lines 620-632, the slot of
\* api_keys_saved: with both key rows filled in a new KiteConnect replaces what
\* MainWindow.kite held (the kiteconnect library is installed); with one of them
\* empty a warning is shown and kite is left as it is. Nothing else assigns
\* MainWindow.kite after __init__: on_login_success (lines 634-648) only passes
\* the token to an existing kite, and _delete_access_token_and_reschedule
\* raises at line 769 (DatabaseManager has no remove_setting) before line 771
\* would clear it
OnApiKeysSaved(keys) == IF keys THEN TRUE ELSE kite

\* ConfigWidget.save_settings, at any moment no message box is up: the
\* threshold rows of the settings table and the trade_on_tbq_tsq_alert row are
\* rewritten (the spin boxes take no negative value; a negative row comes from
\* another writer of the database file, load_settings_from_db does not validate
\* what it reads), then config.py line 341 emits api_keys_saved; the slot is
\* the one a window has connected and runs within the call, without a window
\* the signal has no slot; keys tells that both key fields are filled in
SaveSettings ==
    /\ ~invalid_symbol_box
    /\ \E row \in SettingsRows, flag \in BOOLEAN, keys \in BOOLEAN :
        /\ settings' = row
        /\ trade_on_tbq_tsq_alert' = flag
        /\ kite' = IF main_window = "assembled" THEN OnApiKeysSaved(keys) ELSE kite
    /\ UNCHANGED <<now, today, market_open, user_selected_symbols,
                   specific_monitored_symbol, mwVars, symVars, dailyVars, ctlVars,
                   loopVars, sigVars, histVars>>
    /\ UNCHANGED <<appVars, db_errors>>

Next ==
    \/ ThreadStart
    \/ MarketClosedWait
    \/ BeginTick
    \/ SkipUnresolved
    \/ FetchFails
    \/ ProcessingFails
    \/ ProcessQuote
    \/ EndTick
    \/ DateChanges
    \/ MarketHoursChange
    \/ SaveSettings
    \/ SleepReturns

\* a MonitoringThread constructed directly (__init__, monitoring.py lines
\* 39-70) and given its watchlist by set_monitored_symbols; no window stands
\* behind it: MainWindow() raises, and start_monitoring raises at main.py line
\* 837 before it reaches set_monitored_symbols and start()
EngineInit ==
    /\ Init
    /\ main_window = "None"

Spec == EngineInit /\ [][Next]_vars

\* the thread together with the calls other threads make on it
ControlNext ==
    \/ ThreadStart
    \/ LoopExit
    \/ PausedWait
    \/ MarketClosedWait
    \/ BeginTick
    \/ SkipUnresolved
    \/ FetchFails
    \/ ProcessingFails
    \/ ProcessQuote
    \/ EndTick
    \/ PauseMonitoring
    \/ ResumeMonitoring
    \/ StopMonitoring
    \/ StopReturns
    \/ SetMonitoredSymbols
    \/ MarketHoursChange
    \/ SleepReturns

\* the thread is given the configuration the settings hold, with thresholds
\* start_monitoring accepts, and is followed from MidStart on
ControlInit ==
    /\ EngineInit
    /\ now >= MidStart
    /\ settings = thread_config
    /\ IsValid(thread_config)

ControlSpec == ControlInit /\ [][ControlNext]_vars


(* ------------- MainWindow.start_monitoring (src/src/main.py) ------------ *)

\* lines 817-823: the specific symbol alone when one is set, otherwise the
\* symbols selected in the instrument managers
SymbolsForThread ==
    IF specific_monitored_symbol # "None" THEN <<specific_monitored_symbol>>
    ELSE user_selected_symbols

\* start_monitoring. The thread is constructed at line 829; line 837 then reads
\* monitoring_thread.volume_batch_update, a signal MonitoringThread does not
\* declare, so the call ends with AttributeError before set_monitored_symbols
\* and start() are reached
StartMonitoring ==
    /\ main_window = "assembled"
    /\ ~invalid_symbol_box
    /\ h_start' = [called |-> TRUE, kite |-> kite, settings |-> settings,
                   selected |-> user_selected_symbols,
                   specific |-> specific_monitored_symbol,
                   thread |-> monitoring_thread]
    /\ IF ~kite
       THEN /\ start_outcome' = "no kite"
            /\ UNCHANGED <<config, monitoring_thread>>
       ELSE /\ config' = settings
            /\ IF ~IsValid(settings)
               THEN /\ start_outcome' = "configuration error"
                    /\ UNCHANGED monitoring_thread
               ELSE IF SymbolsForThread = <<>>
               THEN /\ start_outcome' = "no instruments"
                    /\ UNCHANGED monitoring_thread
               ELSE /\ start_outcome' = "raised"
                    /\ monitoring_thread' = "created"
    /\ h_outcomes' = h_outcomes \cup {start_outcome'}
    /\ UNCHANGED <<envVars, main_window, invalid_symbol_box, symVars, dailyVars,
                   ctlVars, loopVars, sigVars,
                   h_fetch_ok, h_fetch_failed, h_before, h_date, h_fired, h_watch,
                   h_today, h_stop, h_auth_failed>>
    /\ UNCHANGED <<appVars, db_errors>>

\* MainWindow(): __init__ creates the DatabaseManager and the three instrument
\* managers (lines 284-288) and then calls AlertConfig without its required
\* stability_threshold and stability_duration (line 291; config.py line 21
\* declares them without defaults): TypeError, and no window comes to exist
MainWindowInit ==
    /\ main_window = "None"
    /\ main_window' = "raised"
    /\ UNCHANGED <<envVars, config, monitoring_thread, start_outcome,
                   invalid_symbol_box, symVars, dailyVars, ctlVars, loopVars,
                   sigVars, histVars>>
    /\ UNCHANGED <<appVars, db_errors>>

\* the user changes the selection of instruments
SelectionChanges ==
    /\ main_window = "assembled"
    /\ ~invalid_symbol_box
    /\ \E w \in Watchlists \cup {<<>>} :
        /\ w # user_selected_symbols
        /\ user_selected_symbols' = w
    /\ UNCHANGED <<now, today, market_open, trade_on_tbq_tsq_alert, kite, settings,
                   specific_monitored_symbol, mwVars, symVars, dailyVars, ctlVars,
                   loopVars, sigVars, histVars>>
    /\ UNCHANGED <<appVars, db_errors>>

\* what the user may have typed into the specific symbol field
SymbolTexts == {"", " ", "a", "A", "b ", "U"}

\* text().strip().upper() on those texts
StripUpper(text) ==
    IF text = " " THEN ""
    ELSE IF text = "a" THEN "A"
    ELSE IF text = "b " THEN "B"
    ELSE text

\* set_specific_monitored_symbol (return pressed in the field), lines 656-674:
\* a symbol one of the managers can trade is kept and an empty text clears the
\* choice, both before their message box is shown; for any other text the
\* "Invalid Symbol" box is shown first (line 669) and the choice is still what
\* it was while the box is up
SetSpecificMonitoredSymbol ==
    /\ main_window = "assembled"
    /\ ~invalid_symbol_box
    /\ \E text \in SymbolTexts :
        LET symbol == StripUpper(text)
        IN  IF symbol = ""
            THEN /\ specific_monitored_symbol' = "None"
                 /\ UNCHANGED invalid_symbol_box
            ELSE IF symbol \in TradableSymbols
            THEN /\ specific_monitored_symbol' = symbol
                 /\ UNCHANGED invalid_symbol_box
            ELSE /\ invalid_symbol_box' = TRUE
                 /\ UNCHANGED specific_monitored_symbol
    /\ UNCHANGED <<now, today, market_open, trade_on_tbq_tsq_alert, kite, settings,
                   user_selected_symbols, main_window, config, monitoring_thread,
                   start_outcome,
                   symVars, dailyVars, ctlVars, loopVars, sigVars, histVars>>
    /\ UNCHANGED <<appVars, db_errors>>

\* set_specific_monitored_symbol, lines 670-671: the "Invalid Symbol" box has
\* been closed; the field and the choice are cleared
InvalidSymbolBoxCloses ==
    /\ invalid_symbol_box
    /\ invalid_symbol_box' = FALSE
    /\ specific_monitored_symbol' = "None"
    /\ UNCHANGED <<now, today, market_open, trade_on_tbq_tsq_alert, kite, settings,
                   user_selected_symbols, main_window, config, monitoring_thread,
                   start_outcome,
                   symVars, dailyVars, ctlVars, loopVars, sigVars, histVars>>
    /\ UNCHANGED <<appVars, db_errors>>

\* update_auto_trade_config: the configuration is loaded from the settings
\* rows, whether or not a kite session exists
UpdateAutoTradeConfig ==
    /\ main_window = "assembled"
    /\ config' = settings
    /\ UNCHANGED <<envVars, main_window, monitoring_thread, start_outcome,
                   invalid_symbol_box,
                   symVars, dailyVars, ctlVars, loopVars, sigVars, histVars>>
    /\ UNCHANGED <<appVars, db_errors>>

StartNext ==
    \/ MainWindowInit
    \/ StartMonitoring
    \/ SaveSettings
    \/ SelectionChanges
    \/ SetSpecificMonitoredSymbol
    \/ InvalidSymbolBoxCloses
    \/ UpdateAutoTradeConfig

StartSpec == Init /\ [][StartNext]_vars


(* ------------- RequestTokenServer (src/src/utils.py) -------------------- *)

\* threading.Thread.is_alive(): started and run() has not returned
IsAlive(i) == thread_pc[i] \notin {"unstarted", "finished"}

\* what the engine, the main window and the dialog hold; left alone here
EngineVars == <<envVars, mwVars, symVars, dailyVars, ctlVars, loopVars, sigVars,
                histVars, db_errors>>

\* start(): a thread is created and started unless _running is set; _running is
\* set by the thread itself, in run()
ServerStart ==
    /\ stop_pc = "idle"
    /\ ~server_running
    /\ \E i \in ServerThreads :
        /\ thread_pc[i] = "unstarted"
        /\ \A j \in ServerThreads : j < i => thread_pc[j] # "unstarted"
        /\ thread_pc' = [thread_pc EXCEPT ![i] = "started"]
        /\ server_thread' = i
    /\ h_stopped' = FALSE
    /\ UNCHANGED <<server_running, server, shutdown_request, is_shut_down,
                   socket_open, server_error, token_received, requests, stop_pc,
                   stop_target, dlgVars, EngineVars>>

\* run(), lines 37-38: the thread opens its DatabaseManager and sets _running.
\* Line 37 stands before the try statement: when it raises the thread ends
\* there, _running is not set and nothing is emitted
ServerRunBegins(i) ==
    /\ thread_pc[i] = "started"
    /\ \E outcome \in DatabaseOpens :
        IF outcome = "opened"
        THEN /\ thread_pc' = [thread_pc EXCEPT ![i] = "try"]
             /\ server_running' = TRUE
        ELSE /\ thread_pc' = [thread_pc EXCEPT ![i] = "finished"]
             /\ UNCHANGED server_running
    /\ UNCHANGED <<server, server_thread, shutdown_request, is_shut_down,
                   socket_open, server_error, token_received, requests, stop_pc,
                   stop_target, h_stopped, dlgVars, EngineVars>>

\* who else may hold localhost:5000 when the thread binds
PortHolders == {"nobody", "another process"}

\* run(), line 85: HTTPServer(("localhost", 5000), ...) binds and listens; with
\* the port taken, by a socket of this object or by another process, it raises
\* and lines 90-91 emit server_error
ServerCreated(i) ==
    /\ thread_pc[i] = "try"
    /\ \E holder \in PortHolders :
        IF holder = "nobody" /\ \A j \in ServerThreads : ~socket_open[j]
        THEN /\ server' = i
             /\ socket_open' = [socket_open EXCEPT ![i] = TRUE]
             /\ thread_pc' = [thread_pc EXCEPT ![i] = "created"]
             /\ UNCHANGED server_error
        ELSE /\ server_error' = server_error + 1
             /\ thread_pc' = [thread_pc EXCEPT ![i] = "finished"]
             /\ UNCHANGED <<server, socket_open>>
    /\ UNCHANGED <<server_running, server_thread, shutdown_request, is_shut_down,
                   token_received, requests, stop_pc, stop_target, h_stopped,
                   dlgVars, EngineVars>>

\* run(), line 88: serve_forever() clears the event shutdown() waits for and
\* registers the socket; on a socket stop() has closed meanwhile the
\* registration raises: serve_forever's finally block sets the event, and the
\* handler at lines 90-91 emits server_error
ServeForever(i) ==
    /\ thread_pc[i] = "created"
    /\ IF socket_open[i]
       THEN /\ thread_pc' = [thread_pc EXCEPT ![i] = "serving"]
            /\ is_shut_down' = [is_shut_down EXCEPT ![i] = FALSE]
            /\ UNCHANGED <<shutdown_request, server_error>>
       ELSE /\ thread_pc' = [thread_pc EXCEPT ![i] = "finished"]
            /\ is_shut_down' = [is_shut_down EXCEPT ![i] = TRUE]
            /\ shutdown_request' = [shutdown_request EXCEPT ![i] = FALSE]
            /\ server_error' = server_error + 1
    /\ UNCHANGED <<server_running, server, server_thread, socket_open,
                   token_received, requests, stop_pc, stop_target, h_stopped,
                   dlgVars, EngineVars>>

\* what a callback request may be, and how the exchange of the request token
\* for a session may end
CallbackPaths == {"/?request_token=abc", "/?state=x", "/favicon.ico"}
SessionOutcomes == {"no api secret", "raises", "session"}
\* the connection of the client while the answer is written
Connections == {"open", "reset"}

\* CallbackHandler.do_GET, lines 44-79: what the request makes the server emit.
\* Each branch writes its answer before it emits (lines 59-64, 66-70, 72-76).
\* On a connection the client has reset the write raises: in the token branch
\* control passes to the except branch, whose own write raises again, so the
\* handler is left by the exception with nothing emitted
DoGet(path, outcome, connection) ==
    IF path = "/favicon.ico" THEN "none"
    ELSE IF connection = "reset" THEN "none"
    ELSE IF path = "/?state=x" THEN "server_error"
    ELSE IF outcome = "session" THEN "token_received"
    ELSE "server_error"

\* the serving thread answers a request that has reached its socket
HandleRequest(i) ==
    /\ thread_pc[i] = "serving"
    /\ socket_open[i]
    /\ requests < MaxRequests
    /\ requests' = requests + 1
    /\ \E path \in CallbackPaths, outcome \in SessionOutcomes,
          connection \in Connections :
        LET emitted == DoGet(path, outcome, connection)
        IN  /\ server_error' = IF emitted = "server_error" THEN server_error + 1
                                ELSE server_error
            /\ token_received' = IF emitted = "token_received" THEN token_received + 1
                                  ELSE token_received
    /\ UNCHANGED <<server_running, server, server_thread, thread_pc,
                   shutdown_request, is_shut_down, socket_open, stop_pc,
                   stop_target, h_stopped, dlgVars, EngineVars>>

\* serve_forever() sees the shutdown request and returns; run() returns
ServeForeverReturns(i) ==
    /\ thread_pc[i] = "serving"
    /\ shutdown_request[i]
    /\ thread_pc' = [thread_pc EXCEPT ![i] = "finished"]
    /\ shutdown_request' = [shutdown_request EXCEPT ![i] = FALSE]
    /\ is_shut_down' = [is_shut_down EXCEPT ![i] = TRUE]
    /\ UNCHANGED <<server_running, server, server_thread, socket_open, server_error,
                   token_received, requests, stop_pc, stop_target, h_stopped,
                   dlgVars, EngineVars>>

\* stop(), lines 104-106: with a server object, shutdown() is called on the
\* object self._server names at line 106; without one the first block is skipped
ServerStop ==
    /\ stop_pc = "idle"
    /\ IF server # 0
       THEN /\ shutdown_request' = [shutdown_request EXCEPT ![server] = TRUE]
            /\ stop_target' = server
            /\ stop_pc' = "shutdown"
       ELSE /\ stop_pc' = "join"
            /\ UNCHANGED <<shutdown_request, stop_target>>
    /\ UNCHANGED <<server_running, server, server_thread, thread_pc, is_shut_down,
                   socket_open, server_error, token_received, requests, h_stopped,
                   dlgVars, EngineVars>>

\* stop(), lines 106-108: shutdown() returns once the serve_forever of the object
\* it was called on has ended; line 107 reads self._server again and closes the
\* socket of the object it names then; _running is cleared
ServerShutdownReturns ==
    /\ stop_pc = "shutdown"
    /\ is_shut_down[stop_target]
    /\ socket_open' = [socket_open EXCEPT ![server] = FALSE]
    /\ server_running' = FALSE
    /\ stop_pc' = "join"
    /\ UNCHANGED <<server, server_thread, thread_pc, shutdown_request, is_shut_down,
                   server_error, token_received, requests, stop_target, h_stopped,
                   dlgVars, EngineVars>>

\* stop(), lines 110-111: join(timeout=1) on a live thread returns when the
\* thread has ended or after one second; stop() returns
ServerStopReturns ==
    /\ stop_pc = "join"
    /\ stop_pc' = "idle"
    /\ h_stopped' = TRUE
    /\ UNCHANGED <<server_running, server, server_thread, thread_pc,
                   shutdown_request, is_shut_down, socket_open, server_error,
                   token_received, requests, stop_target, dlgVars, EngineVars>>

ServerNext ==
    \/ ServerStart
    \/ \E i \in ServerThreads : ServerRunBegins(i)
    \/ \E i \in ServerThreads : ServerCreated(i)
    \/ \E i \in ServerThreads : ServeForever(i)
    \/ \E i \in ServerThreads : HandleRequest(i)
    \/ \E i \in ServerThreads : ServeForeverReturns(i)
    \/ ServerStop
    \/ ServerShutdownReturns
    \/ ServerStopReturns

\* one engine state, not started; the server part is what moves
ServerInit ==
    /\ EngineInit
    /\ market_open
    /\ Len(monitored_symbols) = 1
    /\ settings = thread_config
    /\ IsValid(thread_config)

ServerSpec == ServerInit /\ [][ServerNext]_vars


(* ------------- TradingDialog (src/src/trading_dialog.py) ---------------- *)

\* trigger_price_spinbox is visible for SL and SL-M orders only
\* (_toggle_price_and_trigger_fields); line 244 reads None when it is not
TriggerPrice(order_type, value) ==
    IF order_type \in {"SL", "SL-M"} THEN value ELSE Absent

\* accept_order, lines 246-263: the validation that ends the call with a warning
Validation(quantity, price, order_type, trigger_price, cap) ==
    IF quantity <= 0 THEN "quantity"
    ELSE IF order_type # "MARKET" /\ price <= 0 THEN "price"
    ELSE IF order_type \in {"SL", "SL-M"} /\ (trigger_price = Absent \/ trigger_price <= 0)
         THEN "trigger"
    ELSE IF cap > 0 /\ quantity * price > cap THEN "budget"
    ELSE "ok"

\* accept_order, lines 265-305: the try block. Without a kite, or with a constant
\* getattr does not find, place_order is not reached; order_response.get at
\* line 297 raises AttributeError on a string; every exception leaves REJECTED
\* order_id is None (line 265) until line 297 has read it from the mapping
PlaceOrder(has_kite, constants_found, response, id) ==
    IF ~has_kite \/ ~constants_found
    THEN [calls |-> 0, status |-> "REJECTED", order_id |-> "None"]
    ELSE IF response = "raises"
    THEN [calls |-> 1, status |-> "REJECTED", order_id |-> "None"]
    ELSE IF response = "order id"
    THEN [calls |-> 1, status |-> "REJECTED", order_id |-> "None"]
    ELSE [calls |-> 1, status |-> "PLACED", order_id |-> id]

\* DatabaseManager.log_trade on the trades table, whose order_id column is
\* UNIQUE (database.py line 172): the INSERT raises sqlite3.IntegrityError when
\* a row holds the order id already; rows without an order id never conflict
LogTradeRaises(rows, id) ==
    /\ id # "None"
    /\ \E i \in 1..Len(rows) : rows[i].order_id = id

\* MainWindow constructs a TradingDialog: budget_cap is read from the settings
DialogOpens ==
    /\ dialog.state # "open"
    /\ Len(order_placed) < MaxTrades
    /\ \E k \in BOOLEAN :
        dialog' = [state |-> "open", kite |-> k, box |-> "none", order_id |-> "None"]
    /\ budget_cap' \in BudgetCaps
    /\ warnings' = 0
    /\ h_order' = NoOrder
    /\ UNCHANGED <<trades, order_placed, place_order_calls, srvVars, EngineVars>>

\* accept_order, lines 233-304: a failed validation shows its warning and ends
\* the call; otherwise the try block runs and the call stands in the modal
\* message box that reports its outcome (line 300 or 304)
AcceptOrder ==
    /\ dialog.state = "open"
    /\ dialog.box = "none"
    /\ warnings < MaxWarnings
    /\ place_order_calls < MaxOrders
    /\ \E quantity \in Quantities, price \in Prices, order_type \in OrderTypes,
          value \in TriggerPrices, constants_found \in BOOLEAN,
          response \in BrokerResponses, id \in OrderIds :
        LET trigger_price == TriggerPrice(order_type, value)
            verdict == Validation(quantity, price, order_type, trigger_price, budget_cap)
            r == PlaceOrder(dialog.kite, constants_found, response, id)
        IN  /\ h_order' = [called |-> TRUE,
                           done |-> verdict # "ok",
                           quantity |-> quantity,
                           price |-> price,
                           order_type |-> order_type,
                           trigger_price |-> trigger_price,
                           rows |-> Len(trades),
                           emitted |-> Len(order_placed),
                           calls |-> place_order_calls,
                           returned |-> /\ dialog.kite
                                        /\ constants_found
                                        /\ response # "raises"]
            /\ IF verdict # "ok"
               THEN /\ warnings' = warnings + 1
                    /\ UNCHANGED <<dialog, place_order_calls>>
               ELSE /\ place_order_calls' = place_order_calls + r.calls
                    /\ dialog' = [dialog EXCEPT !.box = r.status,
                                                !.order_id = r.order_id]
                    /\ UNCHANGED warnings
    /\ UNCHANGED <<budget_cap, trades, order_placed, srvVars, EngineVars>>

\* accept_order, lines 308-325: the message box has been closed; the trade row
\* is written, order_placed is emitted and the dialog is closed. When log_trade
\* raises, the call ends there: no row, no emission, and the dialog stays open
MessageBoxCloses ==
    /\ dialog.state = "open"
    /\ dialog.box # "none"
    /\ IF LogTradeRaises(trades, dialog.order_id)
       THEN /\ dialog' = [dialog EXCEPT !.box = "none", !.order_id = "None"]
            /\ UNCHANGED <<trades, order_placed>>
       ELSE /\ trades' = Append(trades, [status |-> dialog.box,
                                         order_id |-> dialog.order_id])
            /\ order_placed' = Append(order_placed, [status |-> dialog.box,
                                                     order_id |-> dialog.order_id])
            /\ dialog' = [dialog EXCEPT !.state = "accepted", !.box = "none",
                                        !.order_id = "None"]
    /\ h_order' = [h_order EXCEPT !.done = TRUE]
    /\ UNCHANGED <<budget_cap, place_order_calls, warnings, srvVars, EngineVars>>

\* the Cancel button: QDialog.reject (out of reach while a message box is shown)
RejectOrder ==
    /\ dialog.state = "open"
    /\ dialog.box = "none"
    /\ dialog' = [dialog EXCEPT !.state = "rejected"]
    /\ h_order' = NoOrder
    /\ UNCHANGED <<budget_cap, trades, order_placed, place_order_calls, warnings,
                   srvVars, EngineVars>>

\* LogsWidget.clear_logs answered Yes ("Clear All Logs", logs.py lines 590-605):
\* DatabaseManager.clear_all_logs deletes every row of the trades table. The
\* button is out of reach while the trading dialog, shown with exec_(), is open
ClearLogs ==
    /\ dialog.state # "open"
    /\ trades # <<>>
    /\ trades' = <<>>
    /\ h_order' = NoOrder
    /\ UNCHANGED <<dialog, budget_cap, order_placed, place_order_calls, warnings,
                   srvVars, EngineVars>>

DialogNext ==
    \/ DialogOpens
    \/ AcceptOrder
    \/ MessageBoxCloses
    \/ RejectOrder
    \/ ClearLogs

DialogSpec == ServerInit /\ [][DialogNext]_vars


(* ------------------------------- claims --------------------------------- *)

\* the result of the symbol processed last in the running tick
Result == last_result.data
Triggered(k) == \E i \in 1..Len(last_result.alerts) : last_result.alerts[i] = k
PercentOf(k) ==
    IF k = "TBQ Spike" THEN Result.tbq_change_percent ELSE Result.tsq_change_percent
\* the change of a side is at least the threshold, as a comparison of fractions
Breached(k) == PercentOf(k).num * 100 >= thread_config.tbq_tsq_threshold * PercentOf(k).den
\* the double that change percent x 100 evaluates to is at least the threshold
ComputedBreach(k) ==
    LET change == PercentOf(k)
        threshold == thread_config.tbq_tsq_threshold
    IN  IF change.num > 0
        THEN DoubleAtLeast(DoubleTimes100(DoubleDiv(change.num, change.den)), threshold)
        ELSE IF change.num = 0 THEN threshold <= 0
        ELSE DoubleAtMost(DoubleTimes100(DoubleDiv(0 - change.num, change.den)),
                          0 - threshold)

\* the change of cur against a reference quantity, as the change formula states it
ExpectedChange(cur, ref) ==
    IF ref = 0 THEN (IF cur > 0 THEN Rat(1, 1) ELSE Rat(0, 1)) ELSE Rat(cur - ref, ref)

\* C1 (as stated): once an alert of a kind has fired for a symbol at time t, a tick
\* before t+300 s fires no second alert of that kind, and a tick at or after
\* t+300 s on which the threshold is breached fires it again.
C1_CooldownAsStated ==
    last_result.present =>
        \A k \in AlertTypes :
            h_before.fired[k] # Absent =>
                /\ (now - h_before.fired[k] < 300 => ~Triggered(k))
                /\ (now - h_before.fired[k] >= 300 /\ Breached(k) => Triggered(k))

\* C1 (amended): once an alert of a kind has fired for a symbol at time t, a tick
\* before t+300 s fires no second alert of that kind; a tick at or after t+300 s
\* on which the threshold is breached (by the double the code computes for change
\* percent x 100) fires it again provided the setting trade_on_tbq_tsq_alert is
\* (still) 'True' when the symbol is evaluated.
C1_CooldownSuppression ==
    last_result.present =>
        \A k \in AlertTypes :
            h_before.fired[k] # Absent =>
                /\ (now - h_before.fired[k] < 300 => ~Triggered(k))
                /\ (now - h_before.fired[k] >= 300 /\ ComputedBreach(k)
                        /\ h_before.enabled => Triggered(k))

\* C1 witness: an alert fires again 300 s or more after it last fired
C1_Witness ==
    /\ last_result.present
    /\ \E k \in AlertTypes :
        /\ h_before.fired[k] # Absent
        /\ now - h_before.fired[k] >= 300
        /\ Triggered(k)

\* C2: on the first observation of a symbol (no previous data in the session)
\* both change percentages are exactly 0 and no spike alert fires.
C2_FirstObservationZero ==
    (last_result.present /\ ~h_before.previous.present) =>
        /\ RatIsZero(Result.tbq_change_percent)
        /\ RatIsZero(Result.tsq_change_percent)
        /\ last_result.alerts = <<>>

\* C3 (as stated): after the first observation the change percent of a side is
\* (current - baseline) / baseline for the stored baseline quantity of the
\* symbol, with 1.0 / 0 for a zero baseline.
C3_ChangeAgainstBaseline ==
    (last_result.present /\ h_before.previous.present) =>
        /\ RatEq(Result.tbq_change_percent,
                 ExpectedChange(Result.tbq, h_before.tbq_baseline))
        /\ RatEq(Result.tsq_change_percent,
                 ExpectedChange(Result.tsq, h_before.tsq_baseline))

\* C3 (amended): after the first result of a symbol the change percent of a side
\* is (current - previous) / previous for the quantity of the symbol's previous
\* result, with 1.0 for a zero previous quantity and a positive current one and
\* 0 for both zero; the stored baseline quantity is not used.
C3_ChangeAgainstPrevious ==
    (last_result.present /\ h_before.previous.present) =>
        /\ RatEq(Result.tbq_change_percent,
                 ExpectedChange(Result.tbq, h_before.previous.tbq))
        /\ RatEq(Result.tsq_change_percent,
                 ExpectedChange(Result.tsq, h_before.previous.tsq))

\* C3 witness: a result whose previous quantity is zero and differs from the
\* baseline, with a positive current quantity
C3_Witness ==
    /\ last_result.present
    /\ h_before.previous.present
    /\ h_before.previous.tbq = 0
    /\ h_before.tbq_baseline # 0
    /\ Result.tbq > 0

\* C4: in a tick results are emitted for exactly the symbols whose quote fetch
\* succeeded, one error is reported per failed fetch, every tradable symbol of
\* the watchlist has been tried when the tick ends, and the loop is not left.
C4_PartialFailureIsolation ==
    /\ volume_update = h_fetch_ok
    /\ error_occurred = Cardinality(h_fetch_failed)
    /\ (pc = "for" /\ idx > Len(iter_symbols)) =>
          h_fetch_ok \cup h_fetch_failed
              = {iter_symbols[i] : i \in 1..Len(iter_symbols)} \cap TradableSymbols
    /\ pc # "finished"
    /\ running
    /\ db_manager # "closed"

\* C5: when the ticks after an alert stay within the stability threshold of the
\* alert-time snapshot for the stability duration without a new spike, the
\* result of the tick completing the duration is marked as a new baseline,
\* the last baseline becomes that result and the stability watch is turned off.
C5_StabilityPromotion ==
    (last_result.present /\ h_before.verdict = "promote") =>
        /\ Result.is_tbq_baseline
        /\ Result.is_tsq_baseline
        /\ last_baseline_data[Result.symbol] = Stored(Result)
        /\ stability_check_active[Result.symbol] = "False"

\* C6: while the stability watch is active a tick outside the band clears the
\* recorded start of the stable run, and after such a break the run is measured
\* from the first stable tick that follows.
C6_ContiguousStreak ==
    (last_result.present /\ h_before.watch.active /\ last_result.alerts = <<>>) =>
        /\ h_before.verdict = "break" =>
              stability_start_times[Result.symbol] = Absent
        /\ (h_before.verdict = "stable" /\ h_before.watch.broken) =>
              stability_start_times[Result.symbol] = h_watch[Result.symbol].since

\* C7: within one date the reported daily maximum of a symbol never decreases
\* and the reported daily minimum never increases from one result to the next.
C7_DailyExtremesMonotone ==
    (last_result.present /\ h_before.previous.present /\ h_before.date = today) =>
        /\ Result.day_high_tbq >= h_before.previous.day_high_tbq
        /\ Result.day_low_tbq <= h_before.previous.day_low_tbq
        /\ Result.day_high_tsq >= h_before.previous.day_high_tsq
        /\ Result.day_low_tsq <= h_before.previous.day_low_tsq

\* C8: the first result of a previously tracked symbol on a new date carries
\* daily highs and lows equal to the quantities of that tick, and no result
\* carries an extreme outside the quantities seen on its own date.
C8_RolloverResetsExtremes ==
    last_result.present =>
        /\ (h_before.previous.present /\ h_before.date # today) =>
              /\ Result.day_high_tbq = Result.tbq
              /\ Result.day_low_tbq = Result.tbq
              /\ Result.day_high_tsq = Result.tsq
              /\ Result.day_low_tsq = Result.tsq
        /\ h_today[Result.symbol].minb <= Result.day_low_tbq
        /\ Result.day_high_tbq <= h_today[Result.symbol].maxb
        /\ h_today[Result.symbol].mins <= Result.day_low_tsq
        /\ Result.day_high_tsq <= h_today[Result.symbol].maxs

\* C8 witness: the first result of a new date, with a buy quantity above the
\* high and a sell quantity below the low reported on the earlier date
C8_Witness ==
    /\ last_result.present
    /\ h_before.previous.present
    /\ h_before.date # today
    /\ Result.tbq > h_before.previous.day_high_tbq
    /\ Result.tsq < h_before.previous.day_low_tsq

\* C9: the first observation of a previously tracked symbol on a new date is
\* treated as a first observation: the baselines become the current quantities
\* and the change percentages are those of a symbol without previous data.
C9_NoStaleBaseline ==
    (last_result.present /\ h_before.previous.present /\ h_before.date # today) =>
        /\ tbq_baselines[Result.symbol] = Result.tbq
        /\ tsq_baselines[Result.symbol] = Result.tsq
        /\ Result.is_tbq_baseline
        /\ Result.is_tsq_baseline
        /\ \/ RatIsZero(Result.tbq_change_percent)
           \/ RatEq(Result.tbq_change_percent, ExpectedChange(Result.tbq, 0))
        /\ \/ RatIsZero(Result.tsq_change_percent)
           \/ RatEq(Result.tsq_change_percent, ExpectedChange(Result.tsq, 0))

\* C10: a start request without a broker client, with a negative threshold in
\* the settings or with an empty watchlist fails: it creates and starts no
\* monitoring thread and the engine stays as it was.
C10_StartPreconditions ==
    (/\ h_start.called
     /\ \/ ~h_start.kite
        \/ h_start.settings.tbq_tsq_threshold < 0
        \/ h_start.settings.stability_threshold < 0
        \/ h_start.settings.stability_duration < 0
        \/ (h_start.specific = "None" /\ h_start.selected = <<>>)) =>
        /\ start_outcome \in {"no kite", "configuration error", "no instruments"}
        /\ monitoring_thread = h_start.thread
        /\ monitoring_thread # "started"
        /\ pc = "unstarted"

\* C10 witness: start requests have failed for each of the three reasons and the
\* last one, with a negative threshold, left no thread
C10_Witness ==
    /\ {"no kite", "configuration error", "no instruments"} \subseteq h_outcomes
    /\ start_outcome = "configuration error"
    /\ h_start.settings.tbq_tsq_threshold < 0
    /\ monitoring_thread = "None"

\* what a tick does for the symbols: the per-symbol state and the emissions
WorkVars == <<symVars, volume_update, alert_triggered, error_occurred, h_fetch_ok,
              h_fetch_failed>>

\* C11: a stop request made while run() is in its loop returns to its caller
\* within the grace period of five seconds, whatever the thread is doing, and
\* the engine is stopped then.
C11_StopBounded ==
    (h_stop.returned /\ h_stop.pc \in Started) =>
        /\ h_stop.back - h_stop.at <= StopGraceSeconds
        /\ pc = "finished"

\* C12 (as stated): while the engine is paused no quote is fetched, no symbol is
\* evaluated, nothing is emitted and the per-symbol state stays as it was at the
\* moment of the pause.
C12_PausedSuppressesWork ==
    [][paused => UNCHANGED <<WorkVars, dailyVars>>]_vars

\* C12 (amended): while the engine is paused no new tick begins; once the tick
\* that was in progress at the pause request has run to its end, nothing is
\* fetched, evaluated or emitted and the per-symbol state stays as it is until
\* the resume; pause and resume themselves change nothing but the flag.
C12_PausedBetweenTicks ==
    [][/\ (paused /\ pc \in {"loop"} \cup Sleeps) =>
             (pc' # "for" /\ UNCHANGED <<WorkVars, dailyVars>>)
       /\ (paused' # paused) =>
             UNCHANGED <<WorkVars, dailyVars, pc, idx, iter_symbols, now>>]_vars

\* C12 witness: the paused branch has run with per-symbol state present
C12_Witness ==
    /\ paused
    /\ pc = "loop"
    /\ status_changed = "paused"
    /\ \E s \in Symbols : previous_volume_data[s].present

\* C13 (as stated): once the running engine has found the market closed it has
\* stopped by itself and polls no more.
C13_StopsAtMarketEnd ==
    status_changed = "market closed" => pc # "for"

\* C13 (amended): a loop iteration of the running engine that finds the market
\* closed reports "market closed" and sleeps; after the sleep the thread is
\* running at the loop head with its database open; the engine does not stop and
\* polls again by itself once the market is open.
C13_WaitsWhileClosed ==
    [][/\ (pc = "loop" /\ running /\ ~market_open) =>
          /\ pc' \in {"loop", "closed_sleep"}
          /\ running'
          /\ db_manager' = "open"
          /\ (pc' = "closed_sleep" => status_changed' = "market closed")
       /\ pc = "closed_sleep" =>
          /\ pc' \in {"closed_sleep", "loop"}
          /\ running'
          /\ db_manager' = "open"
          /\ (pc' = "loop" => now' >= now + ClosedSleep)]_vars

\* C13 witness: a tick is under way after a closed-market wait
C13_Witness ==
    /\ status_changed = "market closed"
    /\ pc = "for"
    /\ running

\* C14: a loop iteration at which the market is closed emits a status update
\* and begins no tick: no symbol is resolved, fetched, evaluated or emitted, and
\* the per-symbol alert and stability state is unchanged.
C14_MarketHoursGate ==
    [][/\ (pc = "loop" /\ ~market_open) =>
          /\ pc' \in {"loop", "closed_sleep"}
          /\ UNCHANGED <<WorkVars, last_result, idx, iter_symbols>>
          /\ (pc' = "closed_sleep" => status_changed' = "market closed")
       /\ pc = "closed_sleep" =>
          /\ pc' \in {"closed_sleep", "loop"}
          /\ UNCHANGED <<WorkVars, last_result, idx, iter_symbols>>]_vars

\* C14 witness: a closed-market iteration has run while an alert cooldown and an
\* active stability watch exist
C14_Witness ==
    /\ status_changed = "market closed"
    /\ pc = "loop"
    /\ ~market_open
    /\ \E k \in Keys : alert_cooldown[k] # Absent
    /\ \E s \in Symbols : stability_check_active[s] = "True"

\* the watchlist entries the running tick has gone past without resolving them
SkippedSoFar == {i \in 1..(idx - 1) : iter_symbols[i] \notin TradableSymbols}

\* C15: a watchlist symbol no instrument manager resolves yields no fetch and no
\* result, is reported through the error stream, and the other symbols of the
\* tick are still processed: in a tick the errors reported are one per failed
\* fetch plus one per unresolved symbol.
C15_UnresolvedReported ==
    pc = "for" =>
        /\ \A i \in SkippedSoFar : iter_symbols[i] \notin h_fetch_ok \cup h_fetch_failed
        /\ error_occurred = Cardinality(h_fetch_failed) + Cardinality(SkippedSoFar)

\* C16: the results of a tick are emitted in one batch after all symbols have
\* been evaluated: while a symbol of the tick is still to be fetched, no result
\* of the tick has been delivered.
C16_OneBatchPerTick ==
    (pc = "for" /\ idx <= Len(iter_symbols)) => volume_update = {}

\* C17 (as stated): the number of alert events emitted for a symbol on a tick
\* equals the number of alert kinds that fired for it, each with the result
\* update of the symbol, and none when no kind fired.
C17_OneEventPerKind ==
    last_result.present =>
        /\ Len(last_result.alert_events) = Len(last_result.alerts)
        /\ (last_result.alerts # <<>> => Result.symbol \in volume_update)

\* C17 (amended): at most one alert event is emitted for a symbol on a tick that
\* yields a result for it: one if at least one kind fired, carrying all fired kinds joined by ", " and the
\* first of them as primary kind, none if no kind fired; the event comes with the
\* result update of the symbol.
C17_OneEventPerSymbol ==
    last_result.present =>
        /\ Len(last_result.alert_events) = (IF last_result.alerts = <<>> THEN 0 ELSE 1)
        /\ last_result.alerts # <<>> =>
              /\ last_result.alert_events[1].symbol = Result.symbol
              /\ last_result.alert_events[1].primary = last_result.alerts[1]
              /\ last_result.alert_events[1].message =
                    (IF Len(last_result.alerts) = 2
                     THEN "TBQ Spike, TSQ Spike"
                     ELSE last_result.alerts[1])
              /\ Result.symbol \in volume_update
              /\ Result.symbol \in alert_triggered
        /\ last_result.alerts = <<>> =>
              (pc = "for" => Result.symbol \notin alert_triggered)

\* C17 witness: both kinds have fired for a symbol on one tick
C17_Witness ==
    /\ last_result.present
    /\ Len(last_result.alerts) = 2
    /\ Len(last_result.alert_events) = 1

\* C18: a watchlist set while a tick iterates takes effect at the next tick: the
\* list a tick iterates is the watchlist as it was when the tick began and does
\* not change during the tick, and each step of the tick processes the entry of
\* that list at the tick's position.
C18_WatchlistAtTickBoundary ==
    [][/\ (pc = "loop" /\ pc' = "for") => iter_symbols' = monitored_symbols
       /\ (pc = "for" /\ pc' = "for") => iter_symbols' = iter_symbols
       /\ (pc = "for" /\ idx' # idx) =>
             /\ idx' = idx + 1
             /\ (h_fetch_ok' \cup h_fetch_failed') \ (h_fetch_ok \cup h_fetch_failed)
                    \subseteq {iter_symbols[idx]}]_vars

\* C18 witness: a tick has processed a symbol of the list it began with after
\* the watchlist was replaced, and is still going through that list
C18_Witness ==
    /\ pc = "for"
    /\ idx > 1
    /\ monitored_symbols # iter_symbols
    /\ Len(iter_symbols) = 3
    /\ "B" \in h_fetch_ok

\* C19: after a quote fetch has failed for lack of authentication the engine
\* stops: no further symbol is fetched and no further tick begins.
C19_AuthFailureStops ==
    [][h_auth_failed =>
          /\ ~(pc = "loop" /\ pc' = "for")
          /\ ~(pc = "for" /\ idx' # idx)]_vars

\* C20 (as stated): whenever a spike of a side fires for a symbol, the stored
\* baseline quantity of that side is the current quantity of that tick.
C20_BaselineResetOnFiring ==
    last_result.present =>
        /\ Triggered("TBQ Spike") => tbq_baselines[Result.symbol] = Result.tbq
        /\ Triggered("TSQ Spike") => tsq_baselines[Result.symbol] = Result.tsq

\* C20 (amended): after every tick that yields a result, firing or not, the quantities the
\* next change is taken against (previous_volume_data) are the current ones, so a
\* following tick with the same quantity has change 0 and, for a positive
\* threshold, does not fire; the stored baselines, once set, are not changed.
C20_ReferenceIsCurrent ==
    last_result.present =>
        /\ previous_volume_data[Result.symbol].present
        /\ previous_volume_data[Result.symbol].tbq = Result.tbq
        /\ previous_volume_data[Result.symbol].tsq = Result.tsq
        /\ h_before.tbq_baseline # Absent =>
              tbq_baselines[Result.symbol] = h_before.tbq_baseline
        /\ h_before.tsq_baseline # Absent =>
              tsq_baselines[Result.symbol] = h_before.tsq_baseline
        /\ (h_before.previous.present /\ Result.tbq = h_before.previous.tbq) =>
              /\ RatIsZero(Result.tbq_change_percent)
              /\ thread_config.tbq_tsq_threshold > 0 => ~Triggered("TBQ Spike")
        /\ (h_before.previous.present /\ Result.tsq = h_before.previous.tsq) =>
              /\ RatIsZero(Result.tsq_change_percent)
              /\ thread_config.tbq_tsq_threshold > 0 => ~Triggered("TSQ Spike")

\* C20 witness: a buy spike has fired for the symbol earlier, the tick repeats
\* the previous buy quantity, which is not the stored baseline, and does not fire
C20_Witness ==
    /\ last_result.present
    /\ h_before.previous.present
    /\ h_before.fired["TBQ Spike"] # Absent
    /\ Result.tbq = h_before.previous.tbq
    /\ Result.tbq # h_before.tbq_baseline
    /\ Result.tbq > 0
    /\ thread_config.tbq_tsq_threshold > 0
    /\ ~Triggered("TBQ Spike")

\* the change of a side is at least the threshold in magnitude, whatever its sign
AbsBreached(k) ==
    (IF PercentOf(k).num < 0 THEN 0 - PercentOf(k).num ELSE PercentOf(k).num) * 100
        >= thread_config.tbq_tsq_threshold * PercentOf(k).den

\* the cooldown of the kind has elapsed when the tick is processed, or the kind
\* has never fired for the symbol
CooldownElapsed(k) ==
    h_before.fired[k] = Absent \/ now - h_before.fired[k] >= CooldownSeconds

\* C21 (as stated): a spike of a side fires exactly when the absolute value of
\* that side's change percent is at least the threshold and the cooldown of the
\* kind has elapsed; a drop fires like a rise.
C21_AbsoluteThreshold ==
    last_result.present =>
        \A k \in AlertTypes : Triggered(k) <=> (AbsBreached(k) /\ CooldownElapsed(k))

\* C21 (amended): a spike of a side fires exactly when the setting
\* trade_on_tbq_tsq_alert is 'True', the signed change percent of that side,
\* times 100 in double precision, is at least the threshold and the cooldown of
\* the kind has elapsed; a drop below a threshold that is not negative does not
\* fire.
C21_SignedThreshold ==
    last_result.present =>
        \A k \in AlertTypes :
            /\ Triggered(k) <=>
                   (h_before.enabled /\ ComputedBreach(k) /\ CooldownElapsed(k))
            /\ (PercentOf(k).num < 0 /\ thread_config.tbq_tsq_threshold >= 0)
                   => ~Triggered(k)

\* C21 witness: the buy quantity drops by at least the threshold, the setting is
\* on and the cooldown has elapsed, and no buy spike fires
C21_Witness ==
    /\ last_result.present
    /\ h_before.enabled
    /\ thread_config.tbq_tsq_threshold > 0
    /\ PercentOf("TBQ Spike").num < 0
    /\ AbsBreached("TBQ Spike")
    /\ CooldownElapsed("TBQ Spike")
    /\ ~Triggered("TBQ Spike")

\* C22: the two sides are evaluated independently: both kinds can fire on the
\* same tick and are then two separate entries of the fired list; with the alert
\* setting on, a kind whose comparison with the threshold holds but which does not
\* fire is held back by its own cooldown only; the cooldown entry of a (symbol,
\* kind) changes only when that kind fires for that symbol.
C22_SidesIndependent ==
    /\ \A key \in Keys : alert_cooldown[key] = h_fired[key]
    /\ last_result.present =>
        /\ \A k \in AlertTypes :
              (h_before.enabled /\ ComputedBreach(k) /\ ~Triggered(k)) =>
                  /\ h_before.fired[k] # Absent
                  /\ now - h_before.fired[k] < CooldownSeconds
        /\ (Triggered("TBQ Spike") /\ Triggered("TSQ Spike")) =>
              last_result.alerts = <<"TBQ Spike", "TSQ Spike">>
        /\ \A k \in AlertTypes :
              Triggered(k) => alert_cooldown[<<Result.symbol, k>>] = now
        /\ \A k \in AlertTypes :
              ~Triggered(k) => alert_cooldown[<<Result.symbol, k>>] = h_before.fired[k]

\* C22 witness: the sell spike fires on a tick on which the buy side is breached
\* too but is still inside the cooldown of its own earlier firing
C22_Witness ==
    /\ last_result.present
    /\ h_before.enabled
    /\ Triggered("TSQ Spike")
    /\ ~Triggered("TBQ Spike")
    /\ ComputedBreach("TBQ Spike")
    /\ h_before.fired["TBQ Spike"] # Absent
    /\ h_before.fired["TSQ Spike"] = Absent

\* the four daily maps hold no entry
DailyMapsEmpty ==
    \A s \in Symbols :
        /\ symbol_daily_max_tbq[s] = Absent
        /\ symbol_daily_min_tbq[s] = Absent
        /\ symbol_daily_max_tsq[s] = Absent
        /\ symbol_daily_min_tsq[s] = Absent

\* a step that is one iteration of the running, non-paused loop: it either
\* enters the tick or enters the sleep of a closed market
LoopIteration ==
    pc = "loop" /\ running /\ ~paused /\ pc' \in {"for", "closed_sleep"}

\* C23: the day-rollover check comes before the market gate: an iteration of the
\* non-paused loop on a date that differs from last_reset_date clears the four
\* daily maps and sets last_reset_date to the date, whether the market is open
\* or closed; last_reset_date changes in no other step, so the reset happens
\* once per date change, and no symbol is processed under an old reset date.
C23_RolloverBeforeMarketGate ==
    [][/\ LoopIteration =>
            /\ last_reset_date' = today
            /\ today # last_reset_date => DailyMapsEmpty'
            /\ today = last_reset_date => UNCHANGED dailyVars
            /\ ~market_open =>
                   (pc' = "closed_sleep" /\ status_changed' = "market closed")
       /\ last_reset_date' # last_reset_date =>
            (LoopIteration /\ today # last_reset_date)
       /\ pc' = "for" => last_reset_date' = today']_vars

\* C23 witness: the date has changed and the reset has been made by an iteration
\* that found the market closed: no tick has run on the new date
C23_Witness ==
    /\ pc = "loop"
    /\ today # 0
    /\ last_reset_date = today
    /\ DailyMapsEmpty
    /\ status_changed = "market closed"
    /\ error_occurred = 0
    /\ \A s \in Symbols : h_date[s] # today
    /\ \E s \in Symbols : h_date[s] # Absent

\* a tracked pair of extremes is ordered when both are there
Ordered(high, low) == (high # Absent /\ low # Absent) => high >= low

\* C24: daily extremes are well ordered: for every symbol observed on the current
\* date the daily maximum is at least the daily minimum, for buy and sell alike,
\* in the tracked maps and in the result that carries them; a symbol not yet
\* observed on the current date has no tracked extremes.
C24_ExtremesWellOrdered ==
    /\ \A s \in Symbols :
        /\ Ordered(symbol_daily_max_tbq[s], symbol_daily_min_tbq[s])
        /\ Ordered(symbol_daily_max_tsq[s], symbol_daily_min_tsq[s])
        /\ h_date[s] # today =>
              /\ symbol_daily_max_tbq[s] = Absent
              /\ symbol_daily_min_tbq[s] = Absent
              /\ symbol_daily_max_tsq[s] = Absent
              /\ symbol_daily_min_tsq[s] = Absent
        /\ (h_date[s] = today /\ previous_volume_data[s].present) =>
              /\ previous_volume_data[s].day_high_tbq >= previous_volume_data[s].day_low_tbq
              /\ previous_volume_data[s].day_high_tsq >= previous_volume_data[s].day_low_tsq
    /\ last_result.present =>
        /\ Result.day_high_tbq >= Result.day_low_tbq
        /\ Result.day_high_tsq >= Result.day_low_tsq

\* C24 witness: a symbol is observed for the second time on the current date,
\* with a lower buy quantity than before, while another symbol of the watchlist
\* has not been observed on this date
C24_Witness ==
    /\ last_result.present
    /\ h_before.previous.present
    /\ h_before.date = today
    /\ Result.tbq < h_before.previous.tbq
    /\ Result.tbq > 0
    /\ \E s \in TradableSymbols : h_date[s] # today

\* C25: a tick on which a spike fires restarts the stability watch of the symbol:
\* afterwards the stability check is active, no stability start time is kept,
\* and that tick runs no stability check: it promotes no baseline (the baseline
\* flags and the stored baselines are those of a tick without promotion).
C25_FiringRestartsWatch ==
    (last_result.present /\ last_result.alerts # <<>>) =>
        /\ stability_check_active[Result.symbol] = "True"
        /\ stability_start_times[Result.symbol] = Absent
        /\ Result.is_tbq_baseline = (h_before.tbq_baseline = Absent)
        /\ Result.is_tsq_baseline = (h_before.tsq_baseline = Absent)
        /\ h_before.tbq_baseline # Absent =>
              tbq_baselines[Result.symbol] = h_before.tbq_baseline
        /\ h_before.tsq_baseline # Absent =>
              tsq_baselines[Result.symbol] = h_before.tsq_baseline
        /\ h_before.verdict = "alert"

\* C25 witness: a spike fires for a tracked symbol whose stability check was
\* already active from an earlier firing
C25_Witness ==
    /\ last_result.present
    /\ last_result.alerts # <<>>
    /\ h_before.previous.present
    /\ h_before.active = "True"

\* the ratio as the ratio rule states it
ExpectedRatio(buy, sell) ==
    IF sell # 0 THEN [num |-> buy, den |-> sell]
    ELSE IF buy > 0 THEN [num |-> buy, den |-> 1]
    ELSE [num |-> 0, den |-> 1]

\* C26: the ratio of a result never divides by zero: it is buy/sell when sell is
\* not 0, buy when sell is 0 and buy is positive, and 0 when both are 0.
C26_RatioTotal ==
    last_result.present =>
        /\ Result.ratio.den # 0
        /\ RatEq(Result.ratio, ExpectedRatio(Result.tbq, Result.tsq))

\* C26 witness: a result with both quantities 0 and ratio 0, for a symbol whose
\* result before had sell quantity 0 and a positive buy quantity
C26_Witness ==
    /\ last_result.present
    /\ Result.tsq = 0
    /\ Result.tbq = 0
    /\ Result.ratio = [num |-> 0, den |-> 1]
    /\ h_before.valid
    /\ h_before.previous.present
    /\ h_before.previous.tsq = 0
    /\ h_before.previous.tbq > 0

\* the three signals of the thread that carry results and errors
ResultSignals == <<volume_update, alert_triggered, error_occurred>>

\* C28 (as stated): once stop_monitoring has returned the polling loop has
\* exited and the thread's database manager is closed, and from then on no
\* volume_update, alert_triggered or error_occurred is emitted; a tick that was
\* in flight when the stop flag was set has first tried every remaining symbol
\* of its watchlist.
C28_QuiescentAfterStop ==
    [][/\ h_stop.returned =>
            /\ pc \notin Started
            /\ db_manager = "closed"
            /\ UNCHANGED ResultSignals
       /\ (h_stop.returned /\ h_stop.position > 0) =>
            \A i \in h_stop.position..Len(iter_symbols) :
                iter_symbols[i] \in TradableSymbols =>
                    iter_symbols[i] \in h_fetch_ok \cup h_fetch_failed]_vars

\* C28 (amended): once a stop_monitoring call made while run() was in its loop
\* (mid-tick, between ticks, paused, market closed) has returned, the loop has
\* exited, the thread's database manager is closed and nothing of the thread
\* changes any more; the loop is left only at its head, so a tick that was in
\* flight when the stop flag was set has first tried every remaining symbol of
\* its watchlist. A call on a thread that is not running (start() not called
\* yet, or run() ended at line 75 because the database could not be opened)
\* returns at once and closes nothing; after any returned call the flag stays
\* cleared, no tick begins, no volume_update, alert_triggered or error_occurred
\* is emitted and no per-symbol state changes.
C28_QuiescentAfterLoop ==
    [][/\ h_stop.returned =>
            /\ ~running
            /\ ~running'
            /\ pc' \in {"unstarted", "loop", "finished"}
            /\ UNCHANGED <<ResultSignals, last_result, symVars, dailyVars>>
       /\ (h_stop.returned /\ h_stop.pc \in Started) =>
            /\ pc = "finished"
            /\ db_manager = "closed"
            /\ UNCHANGED <<status_changed, pc, db_manager>>
       /\ (h_stop.returned /\ h_stop.pc = "finished") =>
            /\ pc = "finished"
            /\ db_manager = "None"
            /\ UNCHANGED <<status_changed, pc, db_manager>>
       /\ (h_stop.returned /\ h_stop.position > 0) =>
            \A i \in h_stop.position..Len(iter_symbols) :
                iter_symbols[i] \in TradableSymbols =>
                    iter_symbols[i] \in h_fetch_ok \cup h_fetch_failed
       /\ (pc # "finished" /\ pc' = "finished") =>
            \/ pc = "loop" /\ ~running
            \/ pc = "unstarted" /\ db_manager' = "None"
       /\ (pc = "for" /\ pc' # "for") => idx > Len(iter_symbols)]_vars

\* C28 witness: the stop flag was set while a tick over three symbols was at its
\* first symbol; the call has returned after the tick had produced the results
\* of both tradable symbols, with the loop exited and the database closed
C28_Witness ==
    /\ h_stop.returned
    /\ h_stop.position = 1
    /\ h_stop.back > h_stop.at
    /\ Len(iter_symbols) = 3
    /\ volume_update = {"A", "B"}
    /\ h_stop.pc = "for"
    /\ pc = "finished"
    /\ db_manager = "closed"

\* C29: single token-callback server: at most one server thread is alive at a
\* time, and once stop() has returned (and start() has not been called again) no
\* server thread is serving or on its way to serving.
C29_SingleTokenServer ==
    /\ Cardinality({i \in ServerThreads : IsAlive(i)}) <= 1
    /\ h_stopped => \A i \in ServerThreads : ~IsAlive(i)

\* the inputs of the last accept_order call pass the validation as it is stated
OrderValid ==
    /\ h_order.quantity > 0
    /\ h_order.order_type # "MARKET" => h_order.price > 0
    /\ h_order.order_type \in {"SL", "SL-M"} => h_order.trigger_price > 0
    /\ ~(budget_cap > 0 /\ h_order.quantity * h_order.price > budget_cap)

\* C30: every accept_order call that passes validation writes exactly one trade
\* row and emits exactly one order_placed, with status PLACED if and only if the
\* broker's place_order returned without error and REJECTED otherwise; a call
\* that fails validation calls the broker zero times, writes no trade row and
\* leaves the dialog open.
C30_OrderLoggedOnce ==
    (h_order.called /\ h_order.done) =>
        IF OrderValid
        THEN /\ Len(trades) = h_order.rows + 1
             /\ Len(order_placed) = h_order.emitted + 1
             /\ order_placed[Len(order_placed)] = trades[Len(trades)]
             /\ trades[Len(trades)].status
                    = IF h_order.returned THEN "PLACED" ELSE "REJECTED"
             /\ dialog.state = "accepted"
        ELSE /\ place_order_calls = h_order.calls
             /\ Len(trades) = h_order.rows
             /\ Len(order_placed) = h_order.emitted
             /\ dialog.state = "open"

====
